---- MODULE Spec2Model ----
(***************************************************************************)
(* Faveworm audio oscilloscope: the real-time core of examples/faveworm.   *)
(*                                                                         *)
(*   RingBuffer   - the single-cursor sample history (write/read)          *)
(*   AudioPlayer  - process() (gain ramp, source pull, ring-buffer write,  *)
(*                  trigger detection), step(), setPaused(), setVolume(),  *)
(*                  startShutdown(), getTriggeredSamples()                 *)
(*                                                                         *)
(* Sizes are scaled so that the state space is finite: the ring holds      *)
(* kSize = 8 slots instead of 16384 and a sweep is kSweepSamples = 3       *)
(* samples instead of 1024.  kSize stays a power of two and a sweep stays  *)
(* shorter than half the ring, as in the program.                          *)
(*                                                                         *)
(* float values of the gain path are IEEE-754 binary32 numbers.  They are  *)
(* held exactly, as a pair <<hi, lo>> standing for (hi * 2^16 + lo) units  *)
(* of 2^-32, and every addition and subtraction rounds to a 24-bit         *)
(* significand, ties to even, as the hardware does.                        *)
(***************************************************************************)
EXTENDS Integers, Sequences, FiniteSets, TLC

(***************************************************************************)
(* Program constants (scaled) and model bounds                             *)
(***************************************************************************)
\* RingBuffer::kSize (16384 in the program; a power of two)
kSize == 8

\* AudioPlayer::kSweepSamples (1024 in the program)
kSweepSamples == 3

\* framesPerBuffer handed to process() by the driver (512 in Pa_OpenStream)
FramesPerBuffer == 2

\* most writes of the sequential ring-buffer specification
MaxRingWrites == 10

\* largest offset tried by RingBuffer::read
MaxOffset == 2

\* most samples the audio callback processes in the trigger specification
MaxSamples == 13

\* most control-context calls in one behaviour
MaxCtl == 3

\* stereo source samples (left, right); slots never written hold 0
SamplePairs == { <<-1, 1>>, <<1, -1>> }

Mask(n) == n % kSize

(***************************************************************************)
(* binary32 arithmetic on [0, 1 + ramp_inc], in units of 2^-32             *)
(***************************************************************************)
W16 == 2^16

F32(hi, lo) == <<hi, lo>>

FZero == <<0, 0>>
FHalf == <<32768, 0>>
FOne  == <<65536, 0>>

FLess(a, b) == a[1] < b[1] \/ (a[1] = b[1] /\ a[2] < b[2])
FLeq(a, b)  == a = b \/ FLess(a, b)
FMin(a, b)  == IF FLess(b, a) THEN b ELSE a
FMax(a, b)  == IF FLess(a, b) THEN b ELSE a

\* exact sum and difference of two unit counts (difference needs b <= a)
ExactAdd(a, b) ==
    LET lo == a[2] + b[2]
    IN  <<a[1] + b[1] + (lo \div W16), lo % W16>>

ExactSub(a, b) ==
    LET borrow == IF a[2] < b[2] THEN 1 ELSE 0
    IN  <<a[1] - b[1] - borrow, a[2] + borrow * W16 - b[2]>>

\* the spacing of binary32 numbers at the magnitude of x, in units of 2^-32:
\* 2^(e-23) for 2^e <= x < 2^(e+1), and 1 below 2^24 units (exact there)
Ulp(x) ==
    IF x[1] >= 65536 THEN 512
    ELSE IF x[1] >= 32768 THEN 256
    ELSE IF x[1] >= 16384 THEN 128
    ELSE IF x[1] >= 8192 THEN 64
    ELSE IF x[1] >= 4096 THEN 32
    ELSE IF x[1] >= 2048 THEN 16
    ELSE IF x[1] >= 1024 THEN 8
    ELSE IF x[1] >= 512 THEN 4
    ELSE IF x[1] >= 256 THEN 2
    ELSE 1

\* round to nearest, ties to even, at the spacing of x
RoundF32(x) ==
    LET q    == Ulp(x)
        r    == x[2] % q
        down == <<x[1], x[2] - r>>
        up   == ExactAdd(down, <<0, q>>)
        odd  == ((x[2] - r) \div q) % 2 = 1
    IN  IF r = 0 THEN x
        ELSE IF 2 * r < q THEN down
        ELSE IF 2 * r > q THEN up
        ELSE IF odd THEN up ELSE down

\* float a + b
FAdd(a, b) == RoundF32(ExactAdd(a, b))

\* float a - b for b <= a (the callers test the sign first)
FSub(a, b) == RoundF32(ExactSub(a, b))

(***************************************************************************)
(* State                                                                   *)
(***************************************************************************)
VARIABLES
    \* RingBuffer
    left_, right_, write_pos_,
    \* AudioPlayer: gain path
    paused_, shutting_down_, volume_, current_gain_,
    \* AudioPlayer::process: the running callback (locals target_gain, i) and
    \* the frame it wrote last (out[2i], out[2i+1])
    target_gain, cb_i, out,
    \* history: the indices of out[] written so far by the current call of
    \* process()
    out_idx,
    \* AudioPlayer: trigger state
    prev_trigger_l_, trigger_holdoff_, latest_trigger_pos_, trigger_rising_,
    \* result of the RingBuffer::read call that just returned
    rd,
    \* result of the getTriggeredSamples call that just returned
    gts,
    \* history: every pair written, in order (sequential ring specification)
    written,
    \* history: samples process() has written, the sample at which the last
    \* trigger was accepted, the triggers accepted so far, and the cursor
    \* writePos() returned at the last acceptance
    n_proc, last_accept, n_trig, trig_cursor,
    \* number of control-context calls made
    n_ctl,
    \* history: frames processed since target_gain last changed its value
    ramp_n,
    \* RingBuffer::write in progress, per calling context: the statement it
    \* is at, its local pos, and the pair it was handed
    w_pc, w_pos, w_val,
    \* AudioPlayer::step: iterations of its loop still to run
    step_todo,
    \* history: calls of RingBuffer::write that have returned
    n_done,
    \* AudioPlayer: parameters stored by the setters.  Cutoff in Hz,
    \* resonance and pre-gain in hundredths, the threshold in units of the
    \* full-scale sample
    filter_cutoff_, filter_resonance_, pre_gain_, trigger_threshold_,
    \* FilterMorpher.  Positions, radii and the split depth in sixteenths,
    \* angles in units of 15 degrees, weights as fractions <<num, den>>
    pos_x_, pos_y_, radius_, angle_, split_angle_, split_depth_,
    angle_y_, radius_y_,
    w_lp_, w_bp_, w_hp_, w_br_, w_lp_y_, w_bp_y_, w_hp_y_, w_br_y_,
    \* the square wave fed to process(): its period in samples (0: none) and
    \* the index of the sample it starts with
    sq_period, sq_phase,
    \* history: the last call of readLeft or readRight, as <<which, offset, value>>
    rl,
    \* the source of AudioPlayer: the number of samples in audio_data_, whether
    \* test_generator_ is set, play_position_, is_playing_, filter_enabled_,
    \* whether the state z1_, z2_ of svf_ is zero; history: reads of
    \* audio_data_.left[idx], frames processed
    total, test_generator_, play_position_, is_playing_, filter_enabled_, svf_rest, n_index, n_pull,
    \* ~AudioPlayer: where it stands ("alive" before it is entered), the
    \* iterations of its wait loop so far; history: the gain read by the test
    \* that left the loop
    dtor_pc, polls, dtor_seen,
    \* StereoFilterRouter: split_mode_, x_output_, y_output_; history: the
    \* member function called last
    split_mode_, x_output_, y_output_, router_call,
    \* SimpleSVF (AudioPlayer::svf_): sample_rate_ and cutoff_ in Hz,
    \* resonance_ in hundredths; the coefficients as the expressions
    \* updateCoeffs evaluated: g_ = <<c, sr>> stands for tan(kPi * c / sr),
    \* k_ is in hundredths, a1_ = <<g, k>> stands for 1 / (1 + g * (g + k));
    \* history: the member function called last
    sample_rate_, cutoff_, resonance_, g_, k_, a1_, svf_call,
    \* the control context inside updateCoeffs (the store it makes next) and the
    \* audio context inside SimpleSVF::process (the coefficient it reads
    \* next, and those it has read: k_, a1_, g_)
    uc_pc, sp_pc, sp_k, sp_a1, sp_g,
    \* RPMOscillator: sampleRate and freq in Hz, phase and increment in
    \* sixteenths of a cycle (phase as a pair <<n, e>>: n sixteenths or, when
    \* n = 0, e times a negligible amount); history: the member function
    \* called last
    sampleRate, freq, phase, increment, osc_call,
    \* the frame of process() under way in the audio context and the iteration
    \* of step() under way in the control context: the statement each is at
    a_pc, s_pc,
    \* history: the pair (l, r) the last frame of process() pulled from its
    \* source, and the pair applyXY gave it (NoResult when the frame did not
    \* run svf_.process)
    tap_src, tap_xy,
    \* AudioPlayer: trigger_lock_; a second run of process() on the same
    \* samples, threshold and polarity: its trigger_lock_, prev_trigger_l_,
    \* trigger_holdoff_ and latest_trigger_pos_
    trigger_lock_, twin_lock, twin_prev, twin_holdoff, twin_pos,
    \* FilterMorpher, statement by statement: the position of the control
    \* context inside a setter, the local sum of computeWeights, the weight
    \* computations completed so far; the apply call of the audio context, the
    \* arguments it has read and their values
    mw_pc, mw_sum, mw_done, ap_kind, ap_read, ap_val

ringVars == <<left_, right_, write_pos_>>
gainVars == <<paused_, shutting_down_, volume_, current_gain_>>
cbVars   == <<target_gain, cb_i, out, out_idx>>
trigVars == <<prev_trigger_l_, trigger_holdoff_, latest_trigger_pos_, trigger_rising_>>
histVars == <<n_proc, last_accept, n_trig, trig_cursor>>
raceVars == <<w_pc, w_pos, w_val, step_todo, n_done>>
paramVars == <<filter_cutoff_, filter_resonance_, pre_gain_, trigger_threshold_>>

morphVars == <<pos_x_, pos_y_, radius_, angle_, split_angle_, split_depth_,
               angle_y_, radius_y_, w_lp_, w_bp_, w_hp_, w_br_,
               w_lp_y_, w_bp_y_, w_hp_y_, w_br_y_>>

squareVars == <<sq_period, sq_phase>>

\* the state outside the ring, gain and trigger paths
edgeVars == <<rl>>

sourceVars == <<total, test_generator_, play_position_, is_playing_, filter_enabled_, svf_rest, n_index, n_pull>>

dtorVars == <<dtor_pc, polls, dtor_seen>>

routerVars == <<split_mode_, x_output_, y_output_, router_call>>

svfVars == <<sample_rate_, cutoff_, resonance_, g_, k_, a1_, svf_call>>

coeffVars == <<uc_pc, sp_pc, sp_k, sp_a1, sp_g>>

oscVars == <<sampleRate, freq, phase, increment, osc_call>>

stepVars == <<a_pc, s_pc>>

tapVars == <<tap_src, tap_xy>>

lockVars == <<trigger_lock_, twin_lock, twin_prev, twin_holdoff, twin_pos>>

weightVars == <<mw_pc, mw_sum, mw_done, ap_kind, ap_read, ap_val>>

\* the groups that follow svfVars
restVars == <<coeffVars, oscVars, stepVars, tapVars, lockVars, weightVars>>

\* the groups that follow routerVars
lateVars == <<svfVars, restVars>>

\* state added to the player by the later sections
earlyVars == <<squareVars, edgeVars, sourceVars, dtorVars, routerVars>>

extraVars == <<earlyVars, lateVars>>

otherVars == <<paramVars, morphVars, extraVars>>

vars == <<left_, right_, write_pos_, paused_, shutting_down_, volume_,
          current_gain_, target_gain, cb_i, out, out_idx, prev_trigger_l_,
          trigger_holdoff_, latest_trigger_pos_, trigger_rising_, rd, gts,
          written, n_proc, last_accept, n_trig, trig_cursor, n_ctl, ramp_n,
          w_pc, w_pos, w_val, step_todo, n_done,
          filter_cutoff_, filter_resonance_, pre_gain_, trigger_threshold_,
          pos_x_, pos_y_, radius_, angle_, split_angle_, split_depth_,
          angle_y_, radius_y_, w_lp_, w_bp_, w_hp_, w_br_,
          w_lp_y_, w_bp_y_, w_hp_y_, w_br_y_,
         sq_period, sq_phase,
         rl,
         total, test_generator_, play_position_, is_playing_, filter_enabled_, svf_rest, n_index, n_pull,
         dtor_pc, polls, dtor_seen,
         split_mode_, x_output_, y_output_, router_call,
         sample_rate_, cutoff_, resonance_, g_, k_, a1_, svf_call,
         uc_pc, sp_pc, sp_k, sp_a1, sp_g,
         sampleRate, freq, phase, increment, osc_call,
         a_pc, s_pc,
         tap_src, tap_xy,
         trigger_lock_, twin_lock, twin_prev, twin_holdoff, twin_pos,
         mw_pc, mw_sum, mw_done, ap_kind, ap_read, ap_val>>

Slots == 0 .. (kSize - 1)

\* the threads that call into AudioPlayer: the audio driver's callback and
\* the UI's event handlers
Contexts == {"audio", "control"}

NoResult == <<>>

(***************************************************************************)
(* RingBuffer                                                              *)
(***************************************************************************)
\* RingBuffer::write, run by a single writer
RingWrite(l, r) ==
    /\ left_'  = [left_  EXCEPT ![Mask(write_pos_)] = l]
    /\ right_' = [right_ EXCEPT ![Mask(write_pos_)] = r]
    /\ write_pos_' = write_pos_ + 1

\* RingBuffer::read with the start taken one slot late
RingReadLate(num_samples, offset) ==
    LET pos   == write_pos_
        start == IF pos >= num_samples + offset
                 THEN pos - num_samples - offset + 1 ELSE 0
    IN  [i \in 1 .. num_samples |->
            <<left_[Mask(start + i - 1)], right_[Mask(start + i - 1)]>>]

\* RingBuffer::read: the pairs it leaves in (left, right)
RingRead(num_samples, offset) ==
    LET pos   == write_pos_
        start == IF pos >= num_samples + offset
                 THEN pos - num_samples - offset ELSE 0
    IN  [i \in 1 .. num_samples |->
            <<left_[Mask(start + i - 1)], right_[Mask(start + i - 1)]>>]

\* RingBuffer::readLeft(offset): offset is an int, converted to size_t and
\* added modulo 2^64, of which the mask keeps the low bits
ReadLeft(offset) == left_[(write_pos_ + offset) % kSize]

\* RingBuffer::readRight(offset)
ReadRight(offset) == right_[(write_pos_ + offset) % kSize]

\* RingBuffer::readLeftAt
ReadLeftAt(index) == left_[Mask(index)]

\* RingBuffer::writePos
WritePos == write_pos_

(***************************************************************************)
(* AudioPlayer::process                                                    *)
(***************************************************************************)
\* ramp_inc of a 51 ms ramp: 1.0f / (0.051f * 8000)
ramp_inc_slow == F32(160, 41121)

\* ramp_inc = 1.0f / (0.050f * sample_rate_) for a stream of 8000 Hz:
\* 0.050f * 8000.0f rounds to 400.0f, and 1.0f / 400.0f rounds to
\* 10737418 * 2^-32 = (163 * 2^16 + 55050) * 2^-32
ramp_inc == F32(163, 55050)

\* 0.050f * sample_rate_ at 8000 Hz
RampFrames == 400

\* lines 795-798 without std::min / std::max
GainStepUnclamped(g, target) ==
    IF FLess(g, target) THEN FAdd(g, ramp_inc)
    ELSE IF FLess(target, g)
         THEN IF FLess(g, ramp_inc) THEN FZero ELSE FSub(g, ramp_inc)
    ELSE g

\* lines 795-798: one frame's move of current_gain_ toward target_gain
GainStep(g, target) ==
    IF FLess(g, target) THEN FMin(target, FAdd(g, ramp_inc))
    ELSE IF FLess(target, g)
         THEN IF FLess(g, ramp_inc) THEN target      \* g - ramp_inc < 0 <= target
              ELSE FMax(target, FSub(g, ramp_inc))
    ELSE g

\* line 791 without the shutting_down_ test
TargetGainNoShutdown == IF paused_ THEN FZero ELSE volume_

\* line 791
TargetGain == IF paused_ \/ shutting_down_ THEN FZero ELSE volume_

\* speaker sample times gain (lines 884-885): 0 when either factor is 0
Scaled(s, g) == IF s = 0 \/ g = FZero THEN <<0, FZero>> ELSE <<s, g>>

\* lines 855-856
Crossed(rising, prev, cur, thresh) ==
    IF rising THEN prev <= thresh /\ cur > thresh
              ELSE prev >= thresh /\ cur < thresh

\* line 858 with the holdoff one sample short
FindTriggerEarly(holdoff) == holdoff >= kSweepSamples - 1

\* line 858 with twice the holdoff
FindTriggerLate(holdoff) == holdoff >= 2 * kSweepSamples

\* line 858
FindTrigger(holdoff) == holdoff >= kSweepSamples

\* int trigger_holdoff_ (line 901), an int of IntBits bits here: more
\* samples than any run on a file, the generator or a ramp processes below
IntBits == 12
IntMax == 2^(IntBits - 1) - 1
IntMin == -(2^(IntBits - 1))

\* trigger_holdoff_++ (line 880): the values the increment can leave.  At
\* IntMax the signed increment overflows, which C++ leaves undefined; a
\* two's-complement build leaves IntMin.
IntInc(x) == IF x < IntMax THEN {x + 1} ELSE IntMin .. IntMax

\* lines 862-863 with the lock deciding: a locked trigger is not accepted
TriggeredUnlessLocked(lock_enabled) == ~lock_enabled

\* lines 862-863: bool triggered = true, lock_enabled being what was loaded
\* from trigger_lock_
Triggered(lock_enabled) == TRUE

\* line 866: the value stored in latest_trigger_pos_ on acceptance
TriggerPosStored(cursor) == Mask(cursor)

\* lines 855-880: trigger detection on the sample l just written, cursor
\* being what writePos() returns at line 866
DetectTrigger(l, cursor) ==
    LET crossed == Crossed(trigger_rising_, prev_trigger_l_, l, trigger_threshold_)
        accept  == /\ crossed /\ FindTrigger(trigger_holdoff_)
                   /\ Triggered(trigger_lock_)
    IN  /\ latest_trigger_pos_' =
             IF accept THEN TriggerPosStored(cursor) ELSE latest_trigger_pos_
        /\ trigger_holdoff_' \in IntInc(IF accept THEN 0 ELSE trigger_holdoff_)
        /\ prev_trigger_l_' = l
        /\ n_proc' = n_proc + 1
        /\ last_accept' = IF accept THEN n_proc + 1 ELSE last_accept
        /\ n_trig' = IF accept THEN n_trig + 1 ELSE n_trig
        /\ trig_cursor' = IF accept THEN cursor ELSE trig_cursor
        /\ gts' = NoResult

\* lines 884-885 with the frames packed one float apart
OutIndicesPacked(i) == <<i, i + 1>>

\* lines 884-885: the indices of out[] that frame i writes
OutIndices(i) == <<i * 2, i * 2 + 1>>

\* lines 789-792: the driver calls process(); target_gain is computed once
BeginProcess ==
    /\ cb_i = FramesPerBuffer
    /\ target_gain' = TargetGain
    /\ cb_i' = 0
    /\ out_idx' = <<>>
    /\ UNCHANGED <<ringVars, gainVars, out, trigVars, histVars, rd, gts, written,
                   n_ctl, raceVars, otherVars>>

\* line 800, g being the gain of this frame
IsRunningUnpaused(g) == ~paused_

IsRunning(g) == ~paused_ \/ FLess(FZero, g)

\* lines 794-886: one iteration of the frame loop, for the pair of scope
\* values and the pair of speaker values that lines 805-846 compute when the
\* frame is running
Frame(scope, speaker) ==
    /\ cb_i < FramesPerBuffer
    /\ LET g          == GainStep(current_gain_, target_gain)
           is_running == IsRunning(g)
           l          == IF is_running THEN scope[1] ELSE 0
           r          == IF is_running THEN scope[2] ELSE 0
           speaker_l  == IF is_running THEN speaker[1] ELSE 0
           speaker_r  == IF is_running THEN speaker[2] ELSE 0
       IN  /\ current_gain_' = g
           /\ IF is_running /\ ~paused_
              THEN /\ RingWrite(l, r)
                   /\ DetectTrigger(l, write_pos_ + 1)
              ELSE UNCHANGED <<ringVars, latest_trigger_pos_, trigger_holdoff_,
                               prev_trigger_l_, histVars, gts>>
           /\ out' = <<Scaled(speaker_l, g), Scaled(speaker_r, g)>>
    /\ out_idx' = out_idx \o OutIndices(cb_i)
    /\ cb_i' = cb_i + 1
    /\ UNCHANGED <<paused_, shutting_down_, volume_, target_gain,
                   trigger_rising_, rd, written, n_ctl, raceVars>>

\* a frame of the loop with the filter disabled: src is the pair the source
\* hands out (file data or test generator), and it is both the scope and
\* the speaker pair (lines 817-822)
ProcessFrame(src) == Frame(src, src) /\ UNCHANGED otherVars

(***************************************************************************)
(* AudioPlayer: calls from the control context                             *)
(***************************************************************************)
\* setPaused(p)
SetPaused(p) ==
    /\ n_ctl < MaxCtl
    /\ paused_' = p
    /\ n_ctl' = n_ctl + 1
    /\ UNCHANGED <<ringVars, shutting_down_, volume_, current_gain_, cbVars,
                   trigVars, histVars, rd, gts, written, ramp_n, raceVars,
                   otherVars>>

\* setVolume(v), v already a float in [0, 1] (std::clamp leaves it alone)
SetVolume(v) ==
    /\ n_ctl < MaxCtl
    /\ volume_' = FMax(FZero, FMin(FOne, v))
    /\ n_ctl' = n_ctl + 1
    /\ UNCHANGED <<ringVars, paused_, shutting_down_, current_gain_, cbVars,
                   trigVars, histVars, rd, gts, written, ramp_n, raceVars,
                   otherVars>>

\* startShutdown()
StartShutdown ==
    /\ n_ctl < MaxCtl
    /\ shutting_down_' = TRUE
    /\ n_ctl' = n_ctl + 1
    /\ UNCHANGED <<ringVars, paused_, volume_, current_gain_, cbVars,
                   trigVars, histVars, rd, gts, written, ramp_n, raceVars,
                   otherVars>>

\* setTriggerRising(v)
SetTriggerRising(v) ==
    /\ n_ctl < MaxCtl
    /\ trigger_rising_' = v
    /\ n_ctl' = n_ctl + 1
    /\ UNCHANGED <<ringVars, gainVars, cbVars, prev_trigger_l_, trigger_holdoff_,
                   latest_trigger_pos_, histVars, rd, gts, written, ramp_n,
                   raceVars, otherVars>>

\* getTriggeredSamples(out, num_samples): <<return value, out>>
TriggeredSamples(num_samples) ==
    LET wp          == WritePos
        trigger_pos == latest_trigger_pos_
    IN  IF trigger_pos = 0 \/ (wp - trigger_pos) > kSize \div 2
        THEN <<FALSE, [i \in 1 .. num_samples |-> ReadLeft(-num_samples + (i - 1))]>>
        ELSE <<TRUE,  [i \in 1 .. num_samples |-> ReadLeftAt(Mask(trigger_pos + i - 1))]>>

GetTriggeredSamples(num_samples) ==
    /\ gts' = TriggeredSamples(num_samples)
    /\ UNCHANGED <<ringVars, gainVars, cbVars, trigVars, histVars, rd, written,
                   n_ctl, ramp_n, raceVars, otherVars>>

(***************************************************************************)
(* Sequential use of the ring buffer: one writer, reads between writes     *)
(***************************************************************************)
InitRingBuffer ==
    /\ left_  = [i \in Slots |-> 0]
    /\ right_ = [i \in Slots |-> 0]
    /\ write_pos_ = 0

\* AudioPlayer() and the member initialisers; the stream runs muted
\* (volume_ = 0, as after setVolume(0)) and with the filter disabled
InitPlayer ==
    /\ paused_ = FALSE
    /\ shutting_down_ = FALSE
    /\ volume_ = FZero
    /\ current_gain_ = FZero
    /\ target_gain = FZero
    /\ cb_i = FramesPerBuffer
    /\ out = <<Scaled(0, FZero), Scaled(0, FZero)>>
    /\ out_idx = <<>>
    /\ prev_trigger_l_ = 0
    /\ trigger_holdoff_ = 0
    /\ latest_trigger_pos_ = 0
    /\ trigger_rising_ = TRUE

InitHistory ==
    /\ rd = NoResult
    /\ gts = NoResult
    /\ written = <<>>
    /\ n_proc = 0
    /\ last_accept = 0
    /\ n_trig = 0
    /\ trig_cursor = 0
    /\ n_ctl = 0
    /\ ramp_n = 0

\* member initialisers: kDefaultFilterCutoff, kDefaultFilterResonance,
\* kDefaultPreGain, kDefaultTriggerThreshold
InitParams ==
    /\ filter_cutoff_ = 150
    /\ filter_resonance_ = 100
    /\ pre_gain_ = 100
    /\ trigger_threshold_ = 0

\* FilterMorpher member initialisers (FilterMorpher.h lines 379-388)
InitMorpher ==
    /\ pos_x_ = <<0, 0>> /\ pos_y_ = <<0, 0>>
    /\ radius_ = 0 /\ angle_ = 0
    /\ split_angle_ = 0 /\ split_depth_ = 0
    /\ angle_y_ = 0 /\ radius_y_ = 0
    /\ w_lp_ = <<1, 4>> /\ w_bp_ = <<1, 4>> /\ w_hp_ = <<1, 4>> /\ w_br_ = <<1, 4>>
    /\ w_lp_y_ = <<1, 4>> /\ w_bp_y_ = <<1, 4>>
    /\ w_hp_y_ = <<1, 4>> /\ w_br_y_ = <<1, 4>>

\* no square wave is playing
InitSquare ==
    /\ sq_period = 0
    /\ sq_phase = 0

\* readLeft and readRight have not been called
InitEdge == rl = NoResult

\* member initialisers of AudioPlayer and SimpleSVF: no audio data, no test
\* generator, not playing, the filter enabled and at rest
InitSource ==
    /\ total = 0
    /\ test_generator_ = FALSE
    /\ play_position_ = 0
    /\ is_playing_ = FALSE
    /\ filter_enabled_ = TRUE
    /\ svf_rest = TRUE
    /\ n_index = 0
    /\ n_pull = 0

\* the player is alive
InitDtor ==
    /\ dtor_pc = "alive"
    /\ polls = 0
    /\ dtor_seen = FOne

\* StereoFilterRouter member initialisers (FilterMorpher.h lines 234-236),
\* which setSplitMode(LpHp) in AudioPlayer() repeats
InitRouter ==
    /\ split_mode_ = "LpHp"
    /\ x_output_ = "LP"
    /\ y_output_ = "HP"
    /\ router_call = "none"

\* no setter and no process() call is in progress; the coefficients last
\* read are those the constructor left
InitCoeff ==
    /\ uc_pc = "idle"
    /\ sp_pc = "idle"
    /\ sp_k = 0
    /\ sp_a1 = <<<<150, 44100>>, 0>>
    /\ sp_g = <<150, 44100>>

\* RPMOscillator(): the constructor sets increment to 0.0 and does not call
\* calculateIncrement
InitOsc ==
    /\ sampleRate = 44100
    /\ freq = 440
    /\ phase = <<0, 0>>
    /\ increment = 0
    /\ osc_call = "none"

\* no frame and no call of step() is under way
InitStep ==
    /\ a_pc = "idle"
    /\ s_pc = "idle"

\* no frame has run
InitTap ==
    /\ tap_src = <<0, 0>>
    /\ tap_xy = NoResult

\* trigger_lock_ { true } in both runs, and the trigger state of InitPlayer
InitLock ==
    /\ trigger_lock_ = TRUE
    /\ twin_lock = TRUE
    /\ twin_prev = 0
    /\ twin_holdoff = 0
    /\ twin_pos = 0

\* applyWithWeights before any of its arguments is evaluated
NoArgs == [r |-> 0, lp |-> <<0, 1>>, bp |-> <<0, 1>>, hp |-> <<0, 1>>,
           br |-> <<0, 1>>]

\* no setter and no apply is running; the member initialisers are the one
\* completed set of weights
InitWeights ==
    /\ mw_pc = <<"idle", 0>>
    /\ mw_sum = 0
    /\ mw_done = {<<"x", 0, <<1, 4>>, <<1, 4>>, <<1, 4>>, <<1, 4>>>>,
                  <<"y", 0, <<1, 4>>, <<1, 4>>, <<1, 4>>, <<1, 4>>>>}
    /\ ap_kind = "none"
    /\ ap_read = {}
    /\ ap_val = NoArgs

InitOtherParts == InitParams /\ InitMorpher /\ InitSquare /\ InitEdge /\ InitSource /\ InitDtor /\ InitRouter /\ InitCoeff /\ InitOsc /\ InitStep /\ InitTap /\ InitLock /\ InitWeights

\* member initialisers of SimpleSVF (FilterMorpher.h lines 105-109): g_ = 0.0
\* is tan(0), k_ = 1.0, a1_ = 1.0 is 1 / (1 + 0 * (0 + 1))
InitSimpleSVF ==
    /\ sample_rate_ = 44100
    /\ cutoff_ = 150
    /\ resonance_ = 70
    /\ g_ = <<0, 44100>>
    /\ k_ = 100
    /\ a1_ = <<<<0, 44100>>, 100>>
    /\ svf_call = "none"

\* svf_ once AudioPlayer() has called setSampleRate(44100.0),
\* setCutoff(150.0) and setResonance(1.0)
InitPlayerSvf ==
    /\ sample_rate_ = 44100
    /\ cutoff_ = 150
    /\ resonance_ = 100
    /\ g_ = <<150, 44100>>
    /\ k_ = 0
    /\ a1_ = <<<<150, 44100>>, 0>>
    /\ svf_call = "setResonance"

InitOther == InitOtherParts /\ InitPlayerSvf

\* no call of RingBuffer::write or AudioPlayer::step is in progress
InitWriters ==
    /\ w_pc = [c \in Contexts |-> "idle"]
    /\ w_pos = [c \in Contexts |-> 0]
    /\ w_val = [c \in Contexts |-> <<0, 0>>]
    /\ step_todo = 0
    /\ n_done = 0

Init == InitRingBuffer /\ InitPlayer /\ InitHistory /\ InitWriters /\ InitOther

\* ring_buffer.write(left, right)
Write(l, r) ==
    /\ Len(written) < MaxRingWrites
    /\ RingWrite(l, r)
    /\ written' = Append(written, <<l, r>>)
    /\ rd' = NoResult
    /\ UNCHANGED <<gainVars, cbVars, trigVars, histVars, gts, n_ctl, ramp_n, raceVars,
                   otherVars>>

\* ring_buffer.read(left, right, num_samples, offset)
Read(num_samples, offset) ==
    /\ rd' = <<num_samples, offset, RingRead(num_samples, offset)>>
    /\ UNCHANGED <<ringVars, gainVars, cbVars, trigVars, histVars, gts, written,
                   n_ctl, ramp_n, raceVars, otherVars>>

NextRing ==
    \/ \E p \in SamplePairs : Write(p[1], p[2])
    \/ \E n \in 1 .. kSize, off \in 0 .. MaxOffset : Read(n, off)

SpecRing == Init /\ [][NextRing]_vars

(***************************************************************************)
(* The audio callback with trigger detection, and its consumer             *)
(***************************************************************************)
\* the driver starts a callback
TrigBegin == BeginProcess /\ UNCHANGED ramp_n

\* the callback processes one frame of an arbitrary source signal
TrigFrame ==
    /\ n_proc < MaxSamples
    /\ \E p \in SamplePairs : ProcessFrame(p)
    /\ UNCHANGED ramp_n

NextTrig ==
    \/ TrigBegin
    \/ TrigFrame
    \/ \E b \in BOOLEAN : SetPaused(b)
    \/ \E b \in BOOLEAN : SetTriggerRising(b)
    \/ GetTriggeredSamples(kSweepSamples)

SpecTrig == Init /\ [][NextTrig]_vars

\* a long stretch of input: silence for as many samples as an int counts,
\* less two, then silence or a sample above the threshold
MaxQuiet == IntMax + 3
QuietPairs(n) == IF n < IntMax - 2 THEN {<<0, 0>>} ELSE {<<0, 0>>, <<1, 1>>}

\* the callback processes one frame of that input
QuietFrame ==
    /\ n_proc < MaxQuiet
    /\ \E p \in QuietPairs(n_proc) : ProcessFrame(p)
    /\ UNCHANGED ramp_n

NextQuiet ==
    \/ TrigBegin
    \/ QuietFrame

SpecQuiet == Init /\ [][NextQuiet]_vars

(***************************************************************************)
(* The gain ramp: a stream of 8000 Hz playing a constant signal.  The      *)
(* control context makes its calls CtlStride frames into a ramp, or        *)
(* once the callback has run RampFrames + ExtraFrames frames on one        *)
(* target.                                                                 *)
(***************************************************************************)
\* volumes handed to setVolume
Volumes == { FHalf, FOne }

\* the source signal of the ramp specification
ConstSource == <<1, -1>>

\* frames processed beyond RampFrames before the callback is left alone
ExtraFrames == 3

\* frames between two moments at which the control context may call
CtlStride == 100

\* the control context calls in the middle of a ramp or after it
CtlPoint == ramp_n = CtlStride \/ ramp_n >= RampFrames + ExtraFrames

\* the driver starts a callback
RampBegin ==
    /\ BeginProcess
    /\ ramp_n' = IF target_gain' # target_gain THEN 0 ELSE ramp_n

\* the callback processes one frame; frames are counted up to ExtraFrames
\* past the ramp, and further only while a changed target waits for the next
\* callback to latch it
RampFrame ==
    /\ ramp_n < RampFrames + ExtraFrames \/ TargetGain # target_gain
    /\ ProcessFrame(ConstSource)
    /\ ramp_n' = ramp_n + 1

NextRamp ==
    \/ RampBegin
    \/ RampFrame
    \/ CtlPoint /\ \E v \in Volumes \ {volume_} : SetVolume(v)
    \/ CtlPoint /\ SetPaused(~paused_)
    \/ CtlPoint /\ StartShutdown

\* AudioPlayer() sets volume_ = kDefaultVolume
InitRamp ==
    /\ InitRingBuffer /\ InitHistory /\ InitWriters /\ InitOther
    /\ paused_ = FALSE
    /\ shutting_down_ = FALSE
    /\ volume_ = FHalf
    /\ current_gain_ = FZero
    /\ target_gain = FZero
    /\ cb_i = FramesPerBuffer
    /\ out = <<Scaled(0, FZero), Scaled(0, FZero)>>
    /\ out_idx = <<>>
    /\ prev_trigger_l_ = 0
    /\ trigger_holdoff_ = 0
    /\ latest_trigger_pos_ = 0
    /\ trigger_rising_ = TRUE

SpecRamp == InitRamp /\ [][NextRamp]_vars

\* current_gain_ has reached the target the control state asks for
Settled == current_gain_ = target_gain /\ target_gain = TargetGain

\* the callback processes one frame; frames are followed until the gain has
\* settled
SettlingFrame ==
    /\ ~Settled
    /\ ProcessFrame(ConstSource)
    /\ ramp_n' = ramp_n + 1

\* the ramp with volume and pause changed between ramps only, and the
\* shutdown requested between ramps or in the middle of one
NextShutdown ==
    \/ RampBegin
    \/ SettlingFrame
    \/ Settled /\ \E v \in Volumes \ {volume_} : SetVolume(v)
    \/ Settled /\ SetPaused(~paused_)
    \/ (Settled \/ CtlPoint) /\ StartShutdown

\* the driver keeps calling process() for as long as the stream is open
SpecRampFair ==
    /\ InitRamp /\ [][NextShutdown]_vars
    /\ WF_vars(RampBegin) /\ WF_vars(SettlingFrame)

(***************************************************************************)
(* The ring buffer under the audio callback and the UI thread together:    *)
(* RingBuffer::write statement by statement, called from process() (line   *)
(* 850) and from step() (lines 657, 669, 683).                             *)
(***************************************************************************)
\* most calls of RingBuffer::write started
MaxRaceWrites == 4

\* context c is inside RingBuffer::write
InWrite(c) == w_pc[c] \in {"load", "left", "right", "store"}

\* line 421: size_t pos = write_pos_.load(relaxed)
WriteLoad(c) ==
    /\ w_pc[c] = "load"
    /\ w_pos' = [w_pos EXCEPT ![c] = write_pos_]
    /\ w_pc' = [w_pc EXCEPT ![c] = "left"]
    /\ UNCHANGED <<ringVars, gainVars, cbVars, trigVars, histVars, rd, gts,
                   written, n_ctl, ramp_n, w_val, step_todo, n_done,
                   otherVars>>

\* line 422: left_[pos & (kSize - 1)] = left
WriteLeft(c) ==
    /\ w_pc[c] = "left"
    /\ left_' = [left_ EXCEPT ![Mask(w_pos[c])] = w_val[c][1]]
    /\ w_pc' = [w_pc EXCEPT ![c] = "right"]
    /\ UNCHANGED <<right_, write_pos_, gainVars, cbVars, trigVars, histVars, rd,
                   gts, written, n_ctl, ramp_n, w_pos, w_val, step_todo, n_done,
                   otherVars>>

\* line 423: right_[pos & (kSize - 1)] = right
WriteRight(c) ==
    /\ w_pc[c] = "right"
    /\ right_' = [right_ EXCEPT ![Mask(w_pos[c])] = w_val[c][2]]
    /\ w_pc' = [w_pc EXCEPT ![c] = "store"]
    /\ UNCHANGED <<left_, write_pos_, gainVars, cbVars, trigVars, histVars, rd,
                   gts, written, n_ctl, ramp_n, w_pos, w_val, step_todo, n_done,
                   otherVars>>

\* line 424: write_pos_.store(pos + 1, release), and the call returns
WritePublish(c) ==
    /\ w_pc[c] = "store"
    /\ write_pos_' = w_pos[c] + 1
    /\ w_pc' = [w_pc EXCEPT ![c] = "done"]
    /\ n_done' = n_done + 1
    /\ UNCHANGED <<left_, right_, gainVars, cbVars, trigVars, histVars, rd, gts,
                   written, n_ctl, ramp_n, w_pos, w_val, step_todo,
                   otherVars>>

\* lines 794-850: a frame of process() up to its call of write; a frame
\* that finds paused_ set at line 848 runs to its end without the ring
AudioFrameStart(src) ==
    /\ w_pc["audio"] = "idle"
    /\ cb_i < FramesPerBuffer
    /\ n_done < MaxRaceWrites
    /\ LET g          == GainStep(current_gain_, target_gain)
           is_running == ~paused_ \/ FLess(FZero, g)
       IN  IF is_running /\ ~paused_
           THEN /\ current_gain_' = g
                /\ w_val' = [w_val EXCEPT !["audio"] = src]
                /\ w_pc' = [w_pc EXCEPT !["audio"] = "load"]
                /\ UNCHANGED <<ringVars, paused_, shutting_down_, volume_,
                               cbVars, trigVars, histVars, rd, gts, written,
                               n_ctl, ramp_n, w_pos, step_todo, n_done,
                               otherVars>>
           ELSE ProcessFrame(src) /\ UNCHANGED ramp_n

\* lines 855-886: the rest of the frame once write has returned
AudioFrameEnd ==
    /\ w_pc["audio"] = "done"
    /\ DetectTrigger(w_val["audio"][1], write_pos_)
    /\ out' = <<Scaled(w_val["audio"][1], current_gain_),
                Scaled(w_val["audio"][2], current_gain_)>>
    /\ out_idx' = out_idx \o OutIndices(cb_i)
    /\ cb_i' = cb_i + 1
    /\ w_pc' = [w_pc EXCEPT !["audio"] = "idle"]
    /\ UNCHANGED <<ringVars, gainVars, target_gain, trigger_rising_, rd,
                   written, n_ctl, ramp_n, w_pos, w_val, step_todo, n_done,
                   otherVars>>

\* lines 2052-2066: the key handler finds isPaused() and calls step(), which
\* starts its loop of kSweepSamples writes (lines 677-684)
StepEnter(src) ==
    /\ paused_
    /\ w_pc["control"] = "idle"
    /\ n_ctl < MaxCtl
    /\ n_done < MaxRaceWrites
    /\ step_todo' = kSweepSamples
    /\ w_val' = [w_val EXCEPT !["control"] = src]
    /\ w_pc' = [w_pc EXCEPT !["control"] = "load"]
    /\ n_ctl' = n_ctl + 1
    /\ UNCHANGED <<ringVars, gainVars, cbVars, trigVars, histVars, rd, gts,
                   written, ramp_n, w_pos, n_done, otherVars>>

\* lines 677-684: the next iteration of step()'s loop, or its return
StepNext(src) ==
    /\ w_pc["control"] = "done"
    /\ step_todo' = step_todo - 1
    /\ IF step_todo > 1
       THEN /\ w_val' = [w_val EXCEPT !["control"] = src]
            /\ w_pc' = [w_pc EXCEPT !["control"] = "load"]
       ELSE /\ w_val' = [w_val EXCEPT !["control"] = <<0, 0>>]
            /\ w_pc' = [w_pc EXCEPT !["control"] = "idle"]
    /\ UNCHANGED <<ringVars, gainVars, cbVars, trigVars, histVars, rd, gts,
                   written, n_ctl, ramp_n, w_pos, n_done, otherVars>>

NextRace ==
    \/ TrigBegin
    \/ \E p \in SamplePairs : AudioFrameStart(p)
    \/ AudioFrameEnd
    \/ \E b \in BOOLEAN : SetPaused(b)
    \/ \E p \in SamplePairs : StepEnter(p)
    \/ \E p \in SamplePairs : StepNext(p)
    \/ \E c \in Contexts : WriteLoad(c)
    \/ \E c \in Contexts : WriteLeft(c)
    \/ \E c \in Contexts : WriteRight(c)
    \/ \E c \in Contexts : WritePublish(c)

SpecRace == Init /\ [][NextRace]_vars

(***************************************************************************)
(* The parameter surface: the setters of AudioPlayer and FilterMorpher.    *)
(* FilterMorpher is followed on the inputs its float arithmetic handles    *)
(* without rounding: positions on the axes in sixteenths, a split depth in *)
(* sixteenths, and angles that are multiples of 30 or 45 degrees, where    *)
(* cos^2 is 1, 3/4, 1/2, 1/4 or 0.                                         *)
(***************************************************************************)
\* std::clamp(v, lo, hi)
Clamp(v, lo, hi) == IF v < lo THEN lo ELSE IF hi < v THEN hi ELSE v

\* kMinFilterCutoff, kMaxFilterCutoff (Hz)
kMinFilterCutoff == 20
kMaxFilterCutoff == 3000

\* kMinFilterResonance, kMaxFilterResonance (hundredths)
kMinFilterResonance == 0
kMaxFilterResonance == 100

\* kMinPreGain, kMaxPreGain (hundredths)
kMinPreGain == 0
kMaxPreGain == 400

\* kMinSplitAngle, kMaxSplitAngle (degrees)
kMinSplitAngle == -180
kMaxSplitAngle == 180

\* sample_rate_ * 0.49, for a rate that is a multiple of 100
MaxCutoff(sr) == (sr * 49) \div 100

\* updateCoeffs, with cutoff_ = c, sample_rate_ = sr, resonance_ = r
UpdateCoeffs(c, sr, r) ==
    /\ g_' = <<c, sr>>
    /\ k_' = 2 * (100 - r)
    /\ a1_' = <<<<c, sr>>, 2 * (100 - r)>>

\* SimpleSVF::setSampleRate(sr)
DoSetSampleRate(sr) ==
    /\ sample_rate_' = sr
    /\ UpdateCoeffs(cutoff_, sr, resonance_)
    /\ svf_call' = "setSampleRate"
    /\ UNCHANGED <<cutoff_, resonance_>>

\* SimpleSVF::setCutoff(fc)
DoSetCutoff(fc) ==
    /\ cutoff_' = Clamp(fc, 20, MaxCutoff(sample_rate_))
    /\ UpdateCoeffs(Clamp(fc, 20, MaxCutoff(sample_rate_)), sample_rate_,
                    resonance_)
    /\ svf_call' = "setCutoff"
    /\ UNCHANGED <<sample_rate_, resonance_>>

\* SimpleSVF::setResonance(r)
DoSetResonance(r) ==
    /\ resonance_' = Clamp(r, 0, 100)
    /\ UpdateCoeffs(cutoff_, sample_rate_, Clamp(r, 0, 100))
    /\ svf_call' = "setResonance"
    /\ UNCHANGED <<sample_rate_, cutoff_>>

\* setFilterCutoff(fc)
SetFilterCutoff(fc) ==
    /\ filter_cutoff_' = Clamp(fc, kMinFilterCutoff, kMaxFilterCutoff)
    /\ DoSetCutoff(Clamp(fc, kMinFilterCutoff, kMaxFilterCutoff))
    /\ UNCHANGED <<ringVars, gainVars, cbVars, trigVars, histVars, rd, gts,
                   written, n_ctl, ramp_n, raceVars, earlyVars, restVars,
                   filter_resonance_,
                   pre_gain_, trigger_threshold_, morphVars>>

\* setFilterResonance(r)
SetFilterResonance(r) ==
    /\ filter_resonance_' = Clamp(r, kMinFilterResonance, kMaxFilterResonance)
    /\ DoSetResonance(Clamp(r, kMinFilterResonance, kMaxFilterResonance))
    /\ UNCHANGED <<ringVars, gainVars, cbVars, trigVars, histVars, rd, gts,
                   written, n_ctl, ramp_n, raceVars, earlyVars, restVars,
                   filter_cutoff_,
                   pre_gain_, trigger_threshold_, morphVars>>

\* setPreGain(v)
SetPreGain(v) ==
    /\ pre_gain_' = v
    /\ UNCHANGED <<ringVars, gainVars, cbVars, trigVars, histVars, rd, gts,
                   written, n_ctl, ramp_n, raceVars, extraVars,
                   filter_cutoff_,
                   filter_resonance_, trigger_threshold_, morphVars>>

\* setTriggerThreshold(v)
SetTriggerThreshold(v) ==
    /\ trigger_threshold_' = v
    /\ UNCHANGED <<ringVars, gainVars, cbVars, trigVars, histVars, rd, gts,
                   written, n_ctl, ramp_n, raceVars, extraVars,
                   filter_cutoff_,
                   filter_resonance_, pre_gain_, morphVars>>

\* 1.0f in sixteenths
One == 2^4

\* kTwoPi, a full turn in units of 15 degrees
kTwoPi == 24

\* degrees * kPi / 180 (line 260) and its inverse (line 263)
Radians(degrees) == degrees \div 15
Degrees(a) == a * 15

\* cos^2 of d * 15 degrees, in quarters
Cos2(d) ==
    CASE d = 0 -> 4
      [] d = 2 -> 3
      [] d = 3 -> 2
      [] d = 4 -> 1
      [] d >= 6 -> 0

\* smoothWeight(center, a), lines 328-334: center and a in 24ths of a turn,
\* the result in quarters
SmoothWeight(center, a) ==
    LET d0   == IF a < center THEN center - a ELSE a - center
        dist == IF 2 * d0 > kTwoPi THEN kTwoPi - d0 ELSE d0
        t    == IF dist < 6 THEN dist ELSE 6
        w2   == Cos2(t)
    IN  IF w2 < 0 THEN 0 ELSE w2

\* lines 336 and 342: the HP weight, with its wrap-around
WeightHP(a) ==
    LET w0 == SmoothWeight(0, a)
        w1 == SmoothWeight(kTwoPi, a)
    IN  IF w0 < w1 THEN w1 ELSE w0

\* computeWeights with w_hp left out of the sum of line 345
ComputeWeightsNoHP(angle) ==
    LET hp  == WeightHP(angle)
        bp  == SmoothWeight(6, angle)
        lp  == SmoothWeight(12, angle)
        br  == SmoothWeight(18, angle)
        den == 2500 * (lp + bp + br) + 1
    IN  [lp |-> <<2500 * lp, den>>, bp |-> <<2500 * bp, den>>,
         hp |-> <<2500 * hp, den>>, br |-> <<2500 * br, den>>]

\* computeWeights, lines 322-350: the raw weights in quarters q give
\* q/4 / (sum/4 + 0.0001) = 2500 q / (2500 sum + 1)
ComputeWeights(angle) ==
    LET hp  == WeightHP(angle)
        bp  == SmoothWeight(6, angle)
        lp  == SmoothWeight(12, angle)
        br  == SmoothWeight(18, angle)
        den == 2500 * (lp + bp + hp + br) + 1
    IN  [lp |-> <<2500 * lp, den>>, bp |-> <<2500 * bp, den>>,
         hp |-> <<2500 * hp, den>>, br |-> <<2500 * br, den>>]

\* the while loops of lines 365-368
RECURSIVE WrapAngle(_)
WrapAngle(a) ==
    IF a >= kTwoPi THEN WrapAngle(a - kTwoPi)
    ELSE IF a < 0 THEN WrapAngle(a + kTwoPi)
    ELSE a

\* line 373: radius_ * (1.0f - split_depth_)
YRadius(r, sd) == (r * (One - sd)) \div One

\* updateYWeights, lines 362-375, for primary radius r, primary angle a,
\* split angle sa and split depth sd
UpdateYWeights(r, a, sa, sd) ==
    LET ay == WrapAngle(a + sa)
        W  == ComputeWeights(ay)
    IN  /\ angle_y_' = ay
        /\ radius_y_' = YRadius(r, sd)
        /\ w_lp_y_' = W.lp /\ w_bp_y_' = W.bp
        /\ w_hp_y_' = W.hp /\ w_br_y_' = W.br

\* A coordinate is <<n, e>>: n sixteenths, or, when n = 0, e times a
\* magnitude under 2^-25 (1e-10f, say), which a binary32 sum with a value of
\* at least 1/16 absorbs.
Whole(n) == <<n, 0>>
Below == <<0, -1>>
Above == <<0, 1>>

\* std::sqrt(x * x + y * y) for a point on or next to an axis: the square of
\* a negligible coordinate is absorbed by the square of the other
Norm(x, y) ==
    LET Abs(v) == IF v < 0 THEN -v ELSE v
    IN  CHOOSE d \in 0 .. (Abs(x[1]) + Abs(y[1])) :
            d * d = x[1] * x[1] + y[1] * y[1]

\* x /= dist, lines 249-250; a negligible coordinate stays negligible
Rescale(x, dist) == <<(x[1] * One) \div dist, x[2]>>

\* std::atan2(y, x) for a point on or next to an axis, as <<k, e>>: k units
\* of 15 degrees, or, when k = 0, e times a negligible angle.  Next to
\* pi/2 or pi the negligible part is absorbed.
Atan2(y, x) ==
    IF y[1] # 0 THEN (IF y[1] > 0 THEN <<6, 0>> ELSE <<-6, 0>>)
    ELSE IF x[1] < 0 THEN (IF y[2] < 0 THEN <<-12, 0>> ELSE <<12, 0>>)
    ELSE IF x[1] > 0 THEN <<0, y[2]>>
    ELSE <<0, 0>>

\* lines 357-358: if (angle_ < 0) angle_ += kTwoPi, a binary32 sum that
\* absorbs a negligible angle
FoldAngle(a0) ==
    IF a0[1] < 0 \/ (a0[1] = 0 /\ a0[2] < 0) THEN a0[1] + kTwoPi ELSE a0[1]

\* the points handed to setPosition: on the axes, inside and outside the
\* unit disc, and next to an axis.  A point just above the positive x axis
\* is left out: its angle is a negligible positive value.
Coords == {-2 * One, -One, -(One \div 2), 0, One \div 2, One, 2 * One}
AxisPoints ==
    {<<Whole(p[1]), Whole(p[2])>> :
        p \in {q \in Coords \X Coords : q[1] = 0 \/ q[2] = 0}}
NearAxisPoints ==
    {<<Whole(n), Below>> : n \in Coords \ {0}}
        \cup {<<Whole(n), Above>> : n \in {m \in Coords : m < 0}}
        \cup {<<e, Whole(n)>> : e \in {Below, Above}, n \in Coords \ {0}}
Points == AxisPoints \cup NearAxisPoints

\* setPosition(x, y), lines 245-255, with updateWeights, lines 352-360
SetPosition(x, y) ==
    LET dist == Norm(x, y)
        px   == IF dist > One THEN Rescale(x, dist) ELSE x
        py   == IF dist > One THEN Rescale(y, dist) ELSE y
        r0   == Norm(px, py)
        r    == IF r0 < One THEN r0 ELSE One
        a    == FoldAngle(Atan2(py, px))
        W    == ComputeWeights(a)
    IN  /\ pos_x_' = px /\ pos_y_' = py
        /\ radius_' = r /\ angle_' = a
        /\ w_lp_' = W.lp /\ w_bp_' = W.bp /\ w_hp_' = W.hp /\ w_br_' = W.br
        /\ UpdateYWeights(r, a, split_angle_, split_depth_)
        /\ UNCHANGED <<ringVars, gainVars, cbVars, trigVars, histVars, rd, gts,
                       written, n_ctl, ramp_n, raceVars, extraVars,
                       paramVars,
                       split_angle_, split_depth_>>

\* setSplitAngle(degrees), lines 259-262
SetSplitAngle(degrees) ==
    /\ split_angle_' = Radians(degrees)
    /\ UpdateYWeights(radius_, angle_, Radians(degrees), split_depth_)
    /\ UNCHANGED <<ringVars, gainVars, cbVars, trigVars, histVars, rd, gts,
                   written, n_ctl, ramp_n, raceVars, extraVars,
                   paramVars, pos_x_, pos_y_,
                   radius_, angle_, split_depth_, w_lp_, w_bp_, w_hp_, w_br_>>

\* setSplitDepth(d), lines 267-270
SetSplitDepth(d) ==
    /\ split_depth_' = Clamp(d, 0, One)
    /\ UpdateYWeights(radius_, angle_, split_angle_, Clamp(d, 0, One))
    /\ UNCHANGED <<ringVars, gainVars, cbVars, trigVars, histVars, rd, gts,
                   written, n_ctl, ramp_n, raceVars, extraVars,
                   paramVars, pos_x_, pos_y_,
                   radius_, angle_, split_angle_, w_lp_, w_bp_, w_hp_, w_br_>>

\* values handed to the setters: below, inside and above each documented
\* range
Cutoffs == {0, 440, 20000}
Hundredths == {-50, 50, 800}
Thresholds == {-2, 1, 2}
OuterAngles == {-360, 90, 360}
OuterDepths == {-(One \div 2), One \div 2, 2 * One}

NextSurface ==
    \/ \E fc \in Cutoffs : SetFilterCutoff(fc)
    \/ \E r \in Hundredths : SetFilterResonance(r)
    \/ \E v \in Hundredths : SetPreGain(v)
    \/ \E v \in Thresholds : SetTriggerThreshold(v)
    \/ \E d \in OuterAngles : SetSplitAngle(d)
    \/ \E d \in OuterDepths : SetSplitDepth(d)

SpecSurface == Init /\ [][NextSurface]_vars

\* FilterMorpher alone: split angles in multiples of 30 and 45 degrees
SplitAngles == {-360, -180, -90, -30, 0, 45, 60, 90, 135, 180, 330, 360, 405}
SplitDepths == {-(One \div 2), 0, One \div 4, One \div 2, One, 2 * One}

NextMorph ==
    \/ \E p \in Points : SetPosition(p[1], p[2])
    \/ \E d \in SplitAngles : SetSplitAngle(d)
    \/ \E d \in SplitDepths : SetSplitDepth(d)

SpecMorph == Init /\ [][NextMorph]_vars

(***************************************************************************)
(* FilterMorpher between two contexts: the control context runs            *)
(* setPosition, setSplitAngle and setSplitDepth statement by statement,    *)
(* storing into the plain float members; the audio context reads the       *)
(* arguments of applyWithWeights one by one.  No lock or atomic orders     *)
(* them.                                                                   *)
(***************************************************************************)
MaxMorphCalls == 2

\* the rest of the state, for the actions of this section
weightRest == <<ringVars, gainVars, cbVars, trigVars, histVars, rd, gts,
                written, ramp_n, raceVars, paramVars, earlyVars, svfVars,
                coeffVars, oscVars, stepVars, tapVars, lockVars>>

\* the weights computeWeights was handed by reference
XWeights == [lp |-> w_lp_, bp |-> w_bp_, hp |-> w_hp_, br |-> w_br_]
YWeights == [lp |-> w_lp_y_, bp |-> w_bp_y_, hp |-> w_hp_y_, br |-> w_br_y_]

\* the k-th store of computeWeights (lines 336-339, 342, 346-349; the sixth
\* statement, line 345, stores no weight): raw weights are quarters, and a
\* raw q over a sum of s quarters plus 0.0001 is 2500 q / (2500 s + 1)
ComputeWeightsStore(k, a, w, sum) ==
    LET hp1 == SmoothWeight(kTwoPi, a)
    IN  CASE k = 1 -> [w EXCEPT !.hp = <<SmoothWeight(0, a), 4>>]
          [] k = 2 -> [w EXCEPT !.bp = <<SmoothWeight(6, a), 4>>]
          [] k = 3 -> [w EXCEPT !.lp = <<SmoothWeight(12, a), 4>>]
          [] k = 4 -> [w EXCEPT !.br = <<SmoothWeight(18, a), 4>>]
          [] k = 5 -> [w EXCEPT !.hp = <<IF w.hp[1] < hp1 THEN hp1
                                         ELSE w.hp[1], 4>>]
          [] k = 6 -> w
          [] k = 7 -> [w EXCEPT !.lp = <<2500 * w.lp[1], 2500 * sum + 1>>]
          [] k = 8 -> [w EXCEPT !.bp = <<2500 * w.bp[1], 2500 * sum + 1>>]
          [] k = 9 -> [w EXCEPT !.hp = <<2500 * w.hp[1], 2500 * sum + 1>>]
          [] k = 10 -> [w EXCEPT !.br = <<2500 * w.br[1], 2500 * sum + 1>>]

\* line 345: the sum of the raw weights, in quarters
ComputeWeightsSum(k, w, sum) ==
    IF k = 6 THEN w.lp[1] + w.bp[1] + w.hp[1] + w.br[1] ELSE sum

\* setPosition(x, y), lines 245-253: the position is stored
RaceSetPosition(x, y) ==
    /\ mw_pc = <<"idle", 0>>
    /\ n_ctl < MaxMorphCalls
    /\ LET dist == Norm(x, y)
       IN  /\ pos_x_' = IF dist > One THEN Rescale(x, dist) ELSE x
           /\ pos_y_' = IF dist > One THEN Rescale(y, dist) ELSE y
    /\ mw_pc' = <<"radius", 0>>
    /\ n_ctl' = n_ctl + 1
    /\ UNCHANGED <<weightRest, radius_, angle_, split_angle_, split_depth_,
                   angle_y_, radius_y_, w_lp_, w_bp_, w_hp_, w_br_, w_lp_y_,
                   w_bp_y_, w_hp_y_, w_br_y_, mw_sum, mw_done, ap_kind,
                   ap_read, ap_val>>

\* setSplitAngle(degrees), line 260
RaceSetSplitAngle(degrees) ==
    /\ mw_pc = <<"idle", 0>>
    /\ n_ctl < MaxMorphCalls
    /\ split_angle_' = Radians(degrees)
    /\ mw_pc' = <<"yhead", 0>>
    /\ n_ctl' = n_ctl + 1
    /\ UNCHANGED <<weightRest, pos_x_, pos_y_, radius_, angle_, split_depth_,
                   angle_y_, radius_y_, w_lp_, w_bp_, w_hp_, w_br_, w_lp_y_,
                   w_bp_y_, w_hp_y_, w_br_y_, mw_sum, mw_done, ap_kind,
                   ap_read, ap_val>>

\* setSplitDepth(d), line 268
RaceSetSplitDepth(d) ==
    /\ mw_pc = <<"idle", 0>>
    /\ n_ctl < MaxMorphCalls
    /\ split_depth_' = Clamp(d, 0, One)
    /\ mw_pc' = <<"yhead", 0>>
    /\ n_ctl' = n_ctl + 1
    /\ UNCHANGED <<weightRest, pos_x_, pos_y_, radius_, angle_, split_angle_,
                   angle_y_, radius_y_, w_lp_, w_bp_, w_hp_, w_br_, w_lp_y_,
                   w_bp_y_, w_hp_y_, w_br_y_, mw_sum, mw_done, ap_kind,
                   ap_read, ap_val>>

\* updateWeights, lines 353-358: radius_ and angle_ are stored
UpdateWeightsHead ==
    /\ mw_pc = <<"radius", 0>>
    /\ LET r0 == Norm(pos_x_, pos_y_)
       IN  radius_' = IF r0 < One THEN r0 ELSE One
    /\ angle_' = FoldAngle(Atan2(pos_y_, pos_x_))
    /\ mw_pc' = <<"x", 1>>
    /\ UNCHANGED <<weightRest, n_ctl, pos_x_, pos_y_, split_angle_,
                   split_depth_, angle_y_, radius_y_, w_lp_, w_bp_, w_hp_,
                   w_br_, w_lp_y_, w_bp_y_, w_hp_y_, w_br_y_, mw_sum, mw_done,
                   ap_kind, ap_read, ap_val>>

\* one statement of computeWeights(angle_, w_lp_, w_bp_, w_hp_, w_br_),
\* line 359
ComputeWeightsX ==
    /\ mw_pc[1] = "x"
    /\ LET k == mw_pc[2]
           W == ComputeWeightsStore(k, angle_, XWeights, mw_sum)
       IN  /\ w_lp_' = W.lp /\ w_bp_' = W.bp /\ w_hp_' = W.hp /\ w_br_' = W.br
           /\ mw_sum' = ComputeWeightsSum(k, XWeights, mw_sum)
           /\ mw_pc' = IF k < 10 THEN <<"x", k + 1>> ELSE <<"yhead", 0>>
    /\ UNCHANGED <<weightRest, n_ctl, pos_x_, pos_y_, radius_, angle_,
                   split_angle_, split_depth_, angle_y_, radius_y_, w_lp_y_,
                   w_bp_y_, w_hp_y_, w_br_y_, mw_done, ap_kind, ap_read,
                   ap_val>>

\* updateYWeights, lines 364-373: angle_y_ and radius_y_ are stored
UpdateYWeightsHead ==
    /\ mw_pc = <<"yhead", 0>>
    /\ angle_y_' = WrapAngle(angle_ + split_angle_)
    /\ radius_y_' = YRadius(radius_, split_depth_)
    /\ mw_pc' = <<"y", 1>>
    /\ UNCHANGED <<weightRest, n_ctl, pos_x_, pos_y_, radius_, angle_,
                   split_angle_, split_depth_, w_lp_, w_bp_, w_hp_, w_br_,
                   w_lp_y_, w_bp_y_, w_hp_y_, w_br_y_, mw_sum, mw_done,
                   ap_kind, ap_read, ap_val>>

\* one statement of computeWeights(angle_y_, w_lp_y_, w_bp_y_, w_hp_y_,
\* w_br_y_), line 376; after the last one the setter returns with both sets
\* of weights complete
ComputeWeightsY ==
    /\ mw_pc[1] = "y"
    /\ LET k == mw_pc[2]
           W == ComputeWeightsStore(k, angle_y_, YWeights, mw_sum)
       IN  /\ w_lp_y_' = W.lp /\ w_bp_y_' = W.bp
           /\ w_hp_y_' = W.hp /\ w_br_y_' = W.br
           /\ mw_sum' = ComputeWeightsSum(k, YWeights, mw_sum)
           /\ mw_pc' = IF k < 10 THEN <<"y", k + 1>> ELSE <<"idle", 0>>
           /\ mw_done' =
                  IF k < 10 THEN mw_done
                  ELSE mw_done \cup
                           {<<"x", radius_, w_lp_, w_bp_, w_hp_, w_br_>>,
                            <<"y", radius_y_, W.lp, W.bp, W.hp, W.br>>}
    /\ UNCHANGED <<weightRest, n_ctl, pos_x_, pos_y_, radius_, angle_,
                   split_angle_, split_depth_, angle_y_, radius_y_, w_lp_,
                   w_bp_, w_hp_, w_br_, ap_kind, ap_read, ap_val>>

\* the arguments of applyWithWeights
ApplyArgs == {"r", "lp", "bp", "hp", "br"}

\* apply (line 283) and the first call of applyXY (line 291) read the X
\* members, the second call of applyXY (line 294) the Y members
ApplyBegin(kind) ==
    /\ ap_kind = "none"
    /\ ap_kind' = kind
    /\ UNCHANGED <<weightRest, n_ctl, morphVars, mw_pc, mw_sum, mw_done,
                   ap_read, ap_val>>

\* the member an argument of the call is read from
ApplyMember(kind, f) ==
    CASE f = "r" -> IF kind = "x" THEN radius_ ELSE radius_y_
      [] f = "lp" -> IF kind = "x" THEN w_lp_ ELSE w_lp_y_
      [] f = "bp" -> IF kind = "x" THEN w_bp_ ELSE w_bp_y_
      [] f = "hp" -> IF kind = "x" THEN w_hp_ ELSE w_hp_y_
      [] f = "br" -> IF kind = "x" THEN w_br_ ELSE w_br_y_

\* one argument is evaluated; C++ leaves the order of evaluation of the
\* arguments open
ApplyRead(f) ==
    /\ ap_kind \in {"x", "y"}
    /\ f \notin ap_read
    /\ ap_val' = [ap_val EXCEPT ![f] = ApplyMember(ap_kind, f)]
    /\ ap_read' = ap_read \cup {f}
    /\ UNCHANGED <<weightRest, n_ctl, morphVars, mw_pc, mw_sum, mw_done,
                   ap_kind>>

\* applyWithWeights (lines 306-320) has its arguments and returns
ApplyReturn ==
    /\ ap_kind \in {"x", "y"}
    /\ ap_read = ApplyArgs
    /\ ap_kind' = "none"
    /\ ap_read' = {}
    /\ ap_val' = NoArgs
    /\ UNCHANGED <<weightRest, n_ctl, morphVars, mw_pc, mw_sum, mw_done>>

\* a point on the positive x axis at radius 1 and one on the positive y
\* axis at radius 1/2; a split of 45 degrees; a split depth of 1/2
RacePoints == {<<Whole(One), Whole(0)>>, <<Whole(0), Whole(One \div 2)>>}
RaceAngles == {45}
RaceDepths == {One \div 2}

NextWeights ==
    \/ \E p \in RacePoints : RaceSetPosition(p[1], p[2])
    \/ \E d \in RaceAngles : RaceSetSplitAngle(d)
    \/ \E d \in RaceDepths : RaceSetSplitDepth(d)
    \/ UpdateWeightsHead
    \/ ComputeWeightsX
    \/ UpdateYWeightsHead
    \/ ComputeWeightsY
    \/ \E kind \in {"x", "y"} : ApplyBegin(kind)
    \/ \E f \in ApplyArgs : ApplyRead(f)
    \/ ApplyReturn

SpecWeights == Init /\ [][NextWeights]_vars

(***************************************************************************)
(* Reads that ask for more history than was written: read() with           *)
(* num_samples + offset beyond the cursor, readLeft() and readRight() with *)
(* an offset that reaches before the first sample.                         *)
(***************************************************************************)
\* most samples written, and how far back readLeft and readRight reach
MaxEdgeWrites == 9
MaxBack == 12

EdgeWrite(l, r) ==
    /\ write_pos_ < MaxEdgeWrites
    /\ RingWrite(l, r)
    /\ written' = Append(written, <<l, r>>)
    /\ rd' = NoResult
    /\ rl' = NoResult
    /\ UNCHANGED <<gainVars, cbVars, trigVars, histVars, gts, n_ctl, ramp_n,
                   raceVars, paramVars, morphVars, squareVars, sourceVars,
                   dtorVars, routerVars, lateVars>>

EdgeRead(num_samples, offset) ==
    /\ rd' = <<num_samples, offset, RingRead(num_samples, offset)>>
    /\ rl' = NoResult
    /\ UNCHANGED <<ringVars, gainVars, cbVars, trigVars, histVars, gts, written,
                   n_ctl, ramp_n, raceVars, paramVars, morphVars, squareVars, sourceVars,
                   dtorVars, routerVars, lateVars>>

EdgeReadLeft(offset) ==
    /\ rl' = <<"left", offset, ReadLeft(offset)>>
    /\ rd' = NoResult
    /\ UNCHANGED <<ringVars, gainVars, cbVars, trigVars, histVars, gts, written,
                   n_ctl, ramp_n, raceVars, paramVars, morphVars, squareVars, sourceVars,
                   dtorVars, routerVars, lateVars>>

EdgeReadRight(offset) ==
    /\ rl' = <<"right", offset, ReadRight(offset)>>
    /\ rd' = NoResult
    /\ UNCHANGED <<ringVars, gainVars, cbVars, trigVars, histVars, gts, written,
                   n_ctl, ramp_n, raceVars, paramVars, morphVars, squareVars, sourceVars,
                   dtorVars, routerVars, lateVars>>

NextEdge ==
    \/ \E p \in SamplePairs : EdgeWrite(p[1], p[2])
    \/ \E n \in 1 .. kSize, off \in 0 .. MaxOffset : EdgeRead(n, off)
    \/ \E off \in -MaxBack .. -1 : EdgeReadLeft(off)
    \/ \E off \in -MaxBack .. -1 : EdgeReadRight(off)

SpecEdge == Init /\ [][NextEdge]_vars

(***************************************************************************)
(* The source of the callback: audio data, the test generator or nothing,  *)
(* with the filter enabled or disabled.  The filter is followed by whether *)
(* its state is zero: at rest and fed zero it puts out zero and stays at   *)
(* rest, otherwise its outputs are arbitrary.                              *)
(***************************************************************************)
MaxTotal == 2
MaxPull == 4

\* the rest of the state, for the actions of this section
sourceRest == <<paramVars, morphVars, squareVars, edgeVars, dtorVars,
                routerVars, svfVars, coeffVars, oscVars, stepVars, lockVars,
                weightVars>>

\* the pairs a test generator hands out, and those a filter off its rest
\* state puts out
GenPairs == {<<1, -1>>, <<1, 1>>}
FilteredPairs == {<<-2, 3>>}

\* audio_data_.left[idx], audio_data_.right[idx]
AudioSample(idx) == IF idx % 2 = 0 THEN <<1, 1>> ELSE <<-1, 1>>

\* line 516 without the test
CanPlayAlways == TRUE

\* line 516: there is something to play
CanPlay == total > 0 \/ test_generator_

\* FilterMorpher::hasSplit
HasSplit == split_angle_ # 0 \/ split_depth_ > 0

\* FilterMorpher::apply(lp, bp, hp), xy being what applyXY gives for the
\* same outputs: applyWithWeights with radius_ and the X weights, which is
\* the x of applyXY
Apply(xy) == xy[1]

\* lines 817-840 with the no-split case taken for the split case
ScopePairSplit(src, xy) == IF ~filter_enabled_ THEN src ELSE xy

\* lines 817-840: the scope pair of a running frame, src being the source
\* pair and xy what applyXY gives
ScopePair(src, xy) ==
    IF ~filter_enabled_ THEN src
    ELSE IF HasSplit THEN xy
    ELSE <<src[1], Apply(xy)>>

\* load(path), for a file of n samples; the UI stops the stream first
Load(n) ==
    /\ ~is_playing_
    /\ total' = n
    /\ play_position_' = 0
    /\ UNCHANGED <<ringVars, gainVars, cbVars, trigVars, histVars, rd, gts,
                   written, n_ctl, ramp_n, raceVars, sourceRest,
                   test_generator_, is_playing_, filter_enabled_, svf_rest,
                   n_index, n_pull, tapVars>>

\* setTestGenerator(gen)
SetTestGenerator(gen) ==
    /\ test_generator_' = gen
    /\ UNCHANGED <<ringVars, gainVars, cbVars, trigVars, histVars, rd, gts,
                   written, n_ctl, ramp_n, raceVars, sourceRest, total,
                   play_position_, is_playing_, filter_enabled_, svf_rest,
                   n_index, n_pull, tapVars>>

\* setFilterEnabled(enabled)
SetFilterEnabled(enabled) ==
    /\ filter_enabled_' = enabled
    /\ UNCHANGED <<ringVars, gainVars, cbVars, trigVars, histVars, rd, gts,
                   written, n_ctl, ramp_n, raceVars, sourceRest, total,
                   test_generator_, play_position_, is_playing_, svf_rest,
                   n_index, n_pull, tapVars>>

\* play(), lines 510-587: opening or starting the stream may fail
Play ==
    /\ IF is_playing_ \/ ~CanPlay
       THEN UNCHANGED is_playing_
       ELSE is_playing_' \in BOOLEAN
    /\ UNCHANGED <<ringVars, gainVars, cbVars, trigVars, histVars, rd, gts,
                   written, n_ctl, ramp_n, raceVars, sourceRest, total,
                   test_generator_, play_position_, filter_enabled_, svf_rest,
                   n_index, n_pull, tapVars>>

\* stop(), lines 589-608
Stop ==
    /\ is_playing_' = FALSE
    /\ UNCHANGED <<ringVars, gainVars, cbVars, trigVars, histVars, rd, gts,
                   written, n_ctl, ramp_n, raceVars, sourceRest, total,
                   test_generator_, play_position_, filter_enabled_, svf_rest,
                   n_index, n_pull, tapVars>>

\* the stream calls process()
SourceBegin ==
    /\ is_playing_
    /\ BeginProcess
    /\ UNCHANGED ramp_n

\* lines 794-886: a frame that pulls its sample from the source (lines
\* 805-814) and runs it through the filter (lines 824-846); gen is what the
\* test generator would hand out, fo what the filter puts out off its rest
\* state
PullFrame(gen, fo) ==
    /\ is_playing_
    /\ n_pull < MaxPull
    /\ LET run       == IsRunning(GainStep(current_gain_, target_gain))
           from_data == run /\ total > 0
           src       == IF from_data
                        THEN AudioSample(play_position_ % total)
                        ELSE IF run /\ test_generator_ THEN gen
                        ELSE <<0, 0>>
           filtering == run /\ filter_enabled_
           quiet     == svf_rest /\ (src[1] + src[2] = 0 \/ pre_gain_ = 0)
           filtered  == IF quiet THEN <<0, 0>> ELSE fo
           scope     == ScopePair(src, filtered)
           speaker   == IF filter_enabled_ THEN filtered ELSE src
       IN  /\ Frame(scope, speaker)
           /\ tap_src' = src
           /\ tap_xy' = IF filtering THEN filtered ELSE NoResult
           /\ play_position_' =
                  IF from_data THEN play_position_ + 1 ELSE play_position_
           /\ n_index' = IF from_data THEN n_index + 1 ELSE n_index
           /\ svf_rest' = IF filtering THEN quiet ELSE svf_rest
    /\ n_pull' = n_pull + 1
    /\ UNCHANGED <<ramp_n, sourceRest, total, test_generator_, is_playing_,
                   filter_enabled_>>

NextSource ==
    \/ \E n \in 1 .. MaxTotal : Load(n)
    \/ \E b \in BOOLEAN : SetTestGenerator(b)
    \/ \E b \in BOOLEAN : SetFilterEnabled(b)
    \/ Play
    \/ Stop
    \/ SourceBegin
    \/ \E gen \in GenPairs, fo \in FilteredPairs : PullFrame(gen, fo)

SpecSource == InitRamp /\ [][NextSource]_vars

\* the same callback with the split of the morpher set from the control
\* surface: a split angle of 0 or 90 degrees, a split depth of 0 or 1/2
NextScope ==
    \/ ~test_generator_ /\ SetTestGenerator(TRUE)
    \/ \E b \in BOOLEAN : SetFilterEnabled(b)
    \/ ~is_playing_ /\ Play
    \/ SourceBegin
    \/ \E gen \in GenPairs, fo \in FilteredPairs : PullFrame(gen, fo)
    \/ \E d \in {0, 90} : SetSplitAngle(d)
    \/ \E d \in {0, One \div 2} : SetSplitDepth(d)

SpecScope == InitRamp /\ [][NextScope]_vars

\* setPaused(p) between two frames of the callback
SourceSetPaused(p) ==
    /\ paused_ # p
    /\ SetPaused(p)

\* the same callback with the player paused and resumed from the control
\* surface
NextPause ==
    \/ \E n \in 1 .. MaxTotal : total = 0 /\ Load(n)
    \/ ~test_generator_ /\ SetTestGenerator(TRUE)
    \/ ~is_playing_ /\ Play
    \/ SourceBegin
    \/ \E gen \in GenPairs, fo \in FilteredPairs : PullFrame(gen, fo)
    \/ \E b \in BOOLEAN : SourceSetPaused(b)

SpecPause == InitRamp /\ [][NextPause]_vars

(***************************************************************************)
(* ~AudioPlayer against the running stream (desktop build).  is_playing_   *)
(* stands for stream_ as well: play() and stop() set and clear the two     *)
(* together.  The wait loop runs at most kMaxPolls times, 3 here and 100   *)
(* in the program.                                                         *)
(***************************************************************************)
\* the bound of the wait loop, line 475 (100 in the program)
kMaxPolls == 3

\* 0.001f is 4294967.5 units of 2^-32: a gain of a whole number of units
\* is above it exactly when it is above 4294967 units
kGainFloor == F32(65, 35127)

\* the rest of the state, for the actions of this section
dtorRest == <<ringVars, paused_, volume_, current_gain_, cbVars, trigVars,
              histVars, rd, gts, written, n_ctl, ramp_n, raceVars, paramVars,
              morphVars, squareVars, edgeVars, total, test_generator_,
              play_position_, filter_enabled_, svf_rest, n_index, n_pull,
              routerVars, lateVars>>

\* line 475 without the bound on i
KeepPollingUnbounded(i, gain) == FLess(kGainFloor, gain)

\* line 475: i < 100 && current_gain_ > 0.001f
KeepPolling(i, gain) == i < kMaxPolls /\ FLess(kGainFloor, gain)

\* the owner sets a test generator and starts the stream
DtorSetTestGenerator ==
    /\ dtor_pc = "alive" /\ ~test_generator_
    /\ SetTestGenerator(TRUE)

DtorPlay == dtor_pc = "alive" /\ ~is_playing_ /\ Play

\* the stream calls process() while it is open
DtorBegin == is_playing_ /\ RampBegin

DtorFrame == is_playing_ /\ SettlingFrame

\* ~AudioPlayer is entered, lines 469-474: at the start of a ramp, in the
\* middle of one, or with the gain settled
Destroy ==
    /\ dtor_pc = "alive"
    /\ Settled \/ CtlPoint \/ ramp_n <= 1
    /\ IF is_playing_
       THEN /\ shutting_down_' = TRUE
            /\ dtor_pc' = "poll"
       ELSE /\ dtor_pc' = "stop"
            /\ UNCHANGED shutting_down_
    /\ UNCHANGED <<dtorRest, is_playing_, polls, dtor_seen>>

\* lines 475-477: the test of the wait loop, and Pa_Sleep(1) when it holds
DtorPoll ==
    /\ dtor_pc = "poll"
    /\ IF KeepPolling(polls, current_gain_)
       THEN /\ polls' = polls + 1
            /\ UNCHANGED <<dtor_pc, dtor_seen>>
       ELSE /\ dtor_pc' = "stop"
            /\ dtor_seen' = current_gain_
            /\ UNCHANGED polls
    /\ UNCHANGED <<dtorRest, is_playing_, shutting_down_>>

\* line 480: stop(), which releases the stream if there is one
DtorStop ==
    /\ dtor_pc = "stop"
    /\ is_playing_' = FALSE
    /\ dtor_pc' = "done"
    /\ UNCHANGED <<dtorRest, shutting_down_, polls, dtor_seen>>

NextDtor ==
    \/ DtorSetTestGenerator
    \/ DtorPlay
    \/ DtorBegin
    \/ DtorFrame
    \/ Destroy
    \/ DtorPoll
    \/ DtorStop

\* Pa_Sleep returns and stop() returns: the destructor keeps running
SpecDtor ==
    /\ InitRamp /\ [][NextDtor]_vars
    /\ WF_vars(DtorPoll) /\ WF_vars(DtorStop)

(***************************************************************************)
(* SimpleSVF alone: its three setters called in any order on a             *)
(* default-constructed filter.                                             *)
(***************************************************************************)
\* the rest of the state, for the actions on svf_
svfRest == <<ringVars, gainVars, cbVars, trigVars, histVars, rd, gts,
             written, n_ctl, ramp_n, raceVars, paramVars, morphVars,
             earlyVars, restVars>>

\* std::tan(kPi * c / sr) for sr > 0, by the half period c / sr falls in:
\* zero at the multiples of pi, unbounded at the odd multiples of pi / 2
Tan(g) ==
    LET m == (2 * g[1]) % (2 * g[2])
    IN  IF m = 0 THEN "zero"
        ELSE IF m < g[2] THEN "positive"
        ELSE IF m = g[2] THEN "pole"
        ELSE "negative"

\* setSampleRate(sr)
SetSampleRate(sr) == DoSetSampleRate(sr) /\ UNCHANGED svfRest

\* setCutoff(fc)
SetCutoff(fc) == DoSetCutoff(fc) /\ UNCHANGED svfRest

\* setResonance(r)
SetResonance(r) == DoSetResonance(r) /\ UNCHANGED svfRest

\* sample rates of audio hardware and files
SampleRates == {8000, 44100, 48000}

\* cutoffs asked for, Hz
SvfCutoffs == {0, 150, 4000, 20000, 30000}

\* resonances asked for, hundredths
SvfResonances == {-50, 0, 70, 100, 150}

NextSVF ==
    \/ \E sr \in SampleRates : SetSampleRate(sr)
    \/ \E fc \in SvfCutoffs : SetCutoff(fc)
    \/ \E r \in SvfResonances : SetResonance(r)

\* a SimpleSVF as constructed, outside any player
InitSVF ==
    /\ InitRingBuffer /\ InitPlayer /\ InitHistory /\ InitWriters
    /\ InitOtherParts /\ InitSimpleSVF

SpecSVF == InitSVF /\ [][NextSVF]_vars

(***************************************************************************)
(* The filter coefficients between the two contexts.  setFilterCutoff and  *)
(* setFilterResonance run in the control context and store the plain       *)
(* doubles g_, k_, a1_ of svf_ one after the other; svf_.process runs in   *)
(* the audio callback and reads k_, a1_ and g_, in this order, with no     *)
(* lock or atomic between them.  Each store and each read is one step.     *)
(***************************************************************************)
\* the rest of the state, for the actions of this section
coeffRest == <<ringVars, gainVars, cbVars, trigVars, histVars, rd, gts,
               written, n_ctl, ramp_n, raceVars, morphVars, earlyVars,
               pre_gain_, trigger_threshold_, sample_rate_, svf_call,
               oscVars, stepVars, tapVars, lockVars, weightVars>>

\* setFilterCutoff(fc) up to the store of cutoff_ in svf_.setCutoff
CtlSetFilterCutoff(fc) ==
    /\ uc_pc = "idle"
    /\ filter_cutoff_' = Clamp(fc, kMinFilterCutoff, kMaxFilterCutoff)
    /\ cutoff_' = Clamp(Clamp(fc, kMinFilterCutoff, kMaxFilterCutoff), 20,
                        MaxCutoff(sample_rate_))
    /\ uc_pc' = "g"
    /\ UNCHANGED <<coeffRest, filter_resonance_, resonance_, g_, k_, a1_,
                   sp_pc, sp_k, sp_a1, sp_g>>

\* setFilterResonance(r) up to the store of resonance_ in svf_.setResonance
CtlSetFilterResonance(r) ==
    /\ uc_pc = "idle"
    /\ filter_resonance_' =
           Clamp(r, kMinFilterResonance, kMaxFilterResonance)
    /\ resonance_' =
           Clamp(Clamp(r, kMinFilterResonance, kMaxFilterResonance), 0, 100)
    /\ uc_pc' = "g"
    /\ UNCHANGED <<coeffRest, filter_cutoff_, cutoff_, g_, k_, a1_,
                   sp_pc, sp_k, sp_a1, sp_g>>

\* updateCoeffs: g_ = std::tan(kPi * cutoff_ / sample_rate_)
CtlStoreG ==
    /\ uc_pc = "g"
    /\ g_' = <<cutoff_, sample_rate_>>
    /\ uc_pc' = "k"
    /\ UNCHANGED <<coeffRest, filter_cutoff_, filter_resonance_, cutoff_,
                   resonance_, k_, a1_, sp_pc, sp_k, sp_a1, sp_g>>

\* updateCoeffs: k_ = 2.0 * (1.0 - resonance_)
CtlStoreK ==
    /\ uc_pc = "k"
    /\ k_' = 2 * (100 - resonance_)
    /\ uc_pc' = "a1"
    /\ UNCHANGED <<coeffRest, filter_cutoff_, filter_resonance_, cutoff_,
                   resonance_, g_, a1_, sp_pc, sp_k, sp_a1, sp_g>>

\* updateCoeffs: a1_ = 1.0 / (1.0 + g_ * (g_ + k_)), and the setter returns
CtlStoreA1 ==
    /\ uc_pc = "a1"
    /\ a1_' = <<g_, k_>>
    /\ uc_pc' = "idle"
    /\ UNCHANGED <<coeffRest, filter_cutoff_, filter_resonance_, cutoff_,
                   resonance_, g_, k_, sp_pc, sp_k, sp_a1, sp_g>>

\* process(in): v0 = softClip(in - k_ * z1_ - z2_)
ProcReadK ==
    /\ sp_pc = "idle"
    /\ sp_k' = k_
    /\ sp_pc' = "a1"
    /\ UNCHANGED <<coeffRest, filter_cutoff_, filter_resonance_, cutoff_,
                   resonance_, g_, k_, a1_, uc_pc, sp_a1, sp_g>>

\* process(in): hp = v0 * a1_
ProcReadA1 ==
    /\ sp_pc = "a1"
    /\ sp_a1' = a1_
    /\ sp_pc' = "g"
    /\ UNCHANGED <<coeffRest, filter_cutoff_, filter_resonance_, cutoff_,
                   resonance_, g_, k_, a1_, uc_pc, sp_k, sp_g>>

\* process(in): bp = g_ * hp + z1_, lp = g_ * bp + z2_, and the call returns
ProcReadG ==
    /\ sp_pc = "g"
    /\ sp_g' = g_
    /\ sp_pc' = "idle"
    /\ UNCHANGED <<coeffRest, filter_cutoff_, filter_resonance_, cutoff_,
                   resonance_, g_, k_, a1_, uc_pc, sp_k, sp_a1>>

\* cutoffs and resonances the control surface asks for
RaceCutoffs == {10, 440, 5000}
RaceResonances == {-10, 70, 100}

NextCoeff ==
    \/ \E fc \in RaceCutoffs : CtlSetFilterCutoff(fc)
    \/ \E r \in RaceResonances : CtlSetFilterResonance(r)
    \/ CtlStoreG
    \/ CtlStoreK
    \/ CtlStoreA1
    \/ ProcReadK
    \/ ProcReadA1
    \/ ProcReadG

SpecCoeff == Init /\ [][NextCoeff]_vars

(***************************************************************************)
(* RPMOscillator: the phase accumulator.  Frequencies and sample rates are *)
(* powers of two and their small multiples, for which freq * (1 / rate) is *)
(* an exact number of sixteenths.  A phase is a pair <<n, e>> as the       *)
(* coordinates of FilterMorpher are: n sixteenths, or a negligible amount  *)
(* (of magnitude under 2^-54, 1e-20 say) that a double sum with a value of *)
(* at least 1/16 absorbs.  The feedback state and the last output, which   *)
(* getSample and reset also write, do not enter the phase and are left     *)
(* out.                                                                    *)
(***************************************************************************)
\* the rest of the state, for the actions of this section
oscRest == <<ringVars, gainVars, cbVars, trigVars, histVars, rd, gts,
             written, n_ctl, ramp_n, raceVars, paramVars, morphVars,
             earlyVars, svfVars, coeffVars, stepVars, tapVars, lockVars,
             weightVars>>

\* the double nearest to n sixteenths plus e negligible amounts
Nearest(n, e) == IF n # 0 THEN <<n, 0>> ELSE <<0, e>>

\* a + b in double arithmetic
PhaseAdd(a, b) == Nearest(a[1] + b[1], a[2] + b[2])

\* a < 0.0
Negative(a) == a[1] < 0 \/ (a[1] = 0 /\ a[2] < 0)

\* while (phase >= 1.0) phase -= 1.0
RECURSIVE WrapHigh(_)
WrapHigh(p) == IF p[1] >= One THEN WrapHigh(PhaseAdd(p, Whole(-One))) ELSE p

\* while (phase < 0.0) phase += 1.0
RECURSIVE WrapLow(_)
WrapLow(p) == IF Negative(p) THEN WrapLow(PhaseAdd(p, Whole(One))) ELSE p

\* increment * numSamples
Advance(inc, numSamples) ==
    IF numSamples[1] # 0 THEN Whole(inc * numSamples[1])
    ELSE IF inc = 0 THEN Whole(0)
    ELSE <<0, numSamples[2]>>

\* calculateIncrement: freq * sampleRateRec, in sixteenths
CalculateIncrement(f, sr) == (One * f) \div sr

\* setSampleRate(newSampleRate)
SetOscSampleRate(sr) ==
    /\ IF sr > 0
          THEN /\ sampleRate' = sr
               /\ increment' = CalculateIncrement(freq, sr)
          ELSE UNCHANGED <<sampleRate, increment>>
    /\ osc_call' = "setSampleRate"
    /\ UNCHANGED <<oscRest, freq, phase>>

\* setFrequency(newFrequency)
SetFrequency(f) ==
    /\ IF f > 0 /\ f < 20000
          THEN /\ freq' = f
               /\ increment' = CalculateIncrement(f, sampleRate)
          ELSE UNCHANGED <<freq, increment>>
    /\ osc_call' = "setFrequency"
    /\ UNCHANGED <<oscRest, sampleRate, phase>>

\* getSample()
GetSample ==
    /\ phase' = WrapHigh(PhaseAdd(phase, Whole(increment)))
    /\ osc_call' = "getSample"
    /\ UNCHANGED <<oscRest, sampleRate, freq, increment>>

\* reset()
Reset ==
    /\ phase' = Whole(0)
    /\ osc_call' = "reset"
    /\ UNCHANGED <<oscRest, sampleRate, freq, increment>>

\* resetPhase()
ResetPhase ==
    /\ phase' = Whole(0)
    /\ osc_call' = "resetPhase"
    /\ UNCHANGED <<oscRest, sampleRate, freq, increment>>

\* setPhase(newPhase)
SetPhase(newPhase) ==
    /\ phase' = WrapLow(WrapHigh(newPhase))
    /\ osc_call' = "setPhase"
    /\ UNCHANGED <<oscRest, sampleRate, freq, increment>>

\* advancePhase(numSamples)
AdvancePhase(numSamples) ==
    /\ phase' = WrapLow(WrapHigh(PhaseAdd(phase,
                                          Advance(increment, numSamples))))
    /\ osc_call' = "advancePhase"
    /\ UNCHANGED <<oscRest, sampleRate, freq, increment>>

\* frequencies and sample rates asked for, Hz: the rates exact powers of two,
\* and values the two setters reject
Frequencies == {-1024, 0, 1024, 2048, 3072, 20000}
OscSampleRates == {-8192, 0, 8192, 16384}

\* phases and sample counts asked for: whole sixteenths (whole samples) and
\* negligible amounts either side of zero
PhasesAsked == {Whole(n) : n \in {-40, -16, -3, 0, 5, 16, 35}} \cup {Below, Above}
SamplesAsked == {Whole(n) : n \in {-7, -1, 1, 3, 20}} \cup {Below, Above}

NextOsc ==
    \/ \E sr \in OscSampleRates : SetOscSampleRate(sr)
    \/ \E f \in Frequencies : SetFrequency(f)
    \/ GetSample
    \/ Reset
    \/ ResetPhase
    \/ \E p \in PhasesAsked : SetPhase(p)
    \/ \E n \in SamplesAsked :
          (n[1] # 0 \/ phase[2] = 0) /\ AdvancePhase(n)

SpecOsc == Init /\ [][NextOsc]_vars

(***************************************************************************)
(* step() against the callback: the test generator is the source, and the  *)
(* key handler calls step() as soon as isPaused() holds.  A frame of       *)
(* process() and an iteration of step() are followed statement by          *)
(* statement through their calls of test_generator_->getSample and         *)
(* svf_.process.  Frames are counted with n_pull, up to MaxPull.           *)
(***************************************************************************)
\* the rest of the state, for the actions of this section
stepRest == <<shutting_down_, volume_, rd, written, ramp_n, w_pc, w_pos,
              w_val, n_done, paramVars, morphVars, squareVars, edgeVars,
              total, test_generator_, play_position_, is_playing_,
              filter_enabled_, svf_rest, n_index, dtorVars, routerVars,
              svfVars, coeffVars, oscVars, tapVars, lockVars, weightVars>>

\* the owner sets a test generator and starts the stream
StepSetTestGenerator == ~test_generator_ /\ SetTestGenerator(TRUE)

StepPlay == ~is_playing_ /\ Play

\* setFilterEnabled
StepSetFilterEnabled(b) == s_pc = "idle" /\ SetFilterEnabled(b)

\* setPaused, from the key handler
StepSetPaused(b) == s_pc = "idle" /\ SetPaused(b)

\* the stream calls process()
StepBegin ==
    /\ is_playing_ /\ total = 0 /\ test_generator_
    /\ a_pc = "idle"
    /\ BeginProcess
    /\ UNCHANGED ramp_n

\* lines 794-802: the gain step and is_running; a frame that is not running
\* goes straight to lines 884-885
AudioEnter ==
    /\ is_playing_ /\ total = 0 /\ test_generator_
    /\ a_pc = "idle"
    /\ cb_i < FramesPerBuffer
    /\ n_pull < MaxPull
    /\ n_pull' = n_pull + 1
    /\ current_gain_' = GainStep(current_gain_, target_gain)
    /\ IF IsRunning(GainStep(current_gain_, target_gain))
       THEN /\ a_pc' = "getSample"
            /\ UNCHANGED <<out, out_idx, cb_i>>
       ELSE /\ a_pc' = "idle"
            /\ out' = <<Scaled(0, GainStep(current_gain_, target_gain)),
                        Scaled(0, GainStep(current_gain_, target_gain))>>
            /\ out_idx' = out_idx \o OutIndices(cb_i)
            /\ cb_i' = cb_i + 1
    /\ UNCHANGED <<stepRest, ringVars, paused_, target_gain, trigVars,
                   histVars, gts, n_ctl, step_todo, s_pc>>

\* line 813: test_generator_->getSample(l, r)
AudioGetSample ==
    /\ a_pc = "getSample"
    /\ a_pc' = IF filter_enabled_ THEN "process" ELSE "rest"
    /\ UNCHANGED <<stepRest, ringVars, gainVars, cbVars, trigVars, histVars,
                   gts, n_ctl, step_todo, n_pull, s_pc>>

\* line 827: svf_.process(mono)
AudioProcess ==
    /\ a_pc = "process"
    /\ a_pc' = "rest"
    /\ UNCHANGED <<stepRest, ringVars, gainVars, cbVars, trigVars, histVars,
                   gts, n_ctl, step_todo, n_pull, s_pc>>

\* lines 848-885: the ring write and the trigger when not paused, and out[]
AudioRest ==
    /\ a_pc = "rest"
    /\ IF ~paused_
       THEN /\ RingWrite(ConstSource[1], ConstSource[2])
            /\ DetectTrigger(ConstSource[1], write_pos_ + 1)
       ELSE UNCHANGED <<ringVars, latest_trigger_pos_, trigger_holdoff_,
                        prev_trigger_l_, histVars, gts>>
    /\ out' = <<Scaled(ConstSource[1], current_gain_),
                Scaled(ConstSource[2], current_gain_)>>
    /\ out_idx' = out_idx \o OutIndices(cb_i)
    /\ cb_i' = cb_i + 1
    /\ a_pc' = "idle"
    /\ UNCHANGED <<stepRest, gainVars, target_gain, trigger_rising_, n_ctl,
                   step_todo, n_pull, s_pc>>

\* lines 2052-2066 and 624-630: the key handler finds isPaused() and calls
\* step(), which moves the generator's phase and enters its loop
StepCall ==
    /\ paused_ /\ total = 0 /\ test_generator_
    /\ s_pc = "idle"
    /\ n_ctl < MaxCtl
    /\ n_ctl' = n_ctl + 1
    /\ step_todo' = kSweepSamples
    /\ s_pc' = "getSample"
    /\ UNCHANGED <<stepRest, ringVars, gainVars, cbVars, trigVars, histVars,
                   gts, n_pull, a_pc>>

\* line 633: test_generator_->getSample(l, r)
StepGetSample ==
    /\ s_pc = "getSample"
    /\ s_pc' = IF filter_enabled_ THEN "process" ELSE "write"
    /\ UNCHANGED <<stepRest, ringVars, gainVars, cbVars, trigVars, histVars,
                   gts, n_ctl, step_todo, n_pull, a_pc>>

\* line 642: svf_.process(mono)
StepProcess ==
    /\ s_pc = "process"
    /\ s_pc' = "write"
    /\ UNCHANGED <<stepRest, ringVars, gainVars, cbVars, trigVars, histVars,
                   gts, n_ctl, step_todo, n_pull, a_pc>>

\* line 657: ring_buffer_.write(scope_l, scope_r), then the next iteration
\* or the return
StepWrite ==
    /\ s_pc = "write"
    /\ RingWrite(ConstSource[1], ConstSource[2])
    /\ step_todo' = step_todo - 1
    /\ s_pc' = IF step_todo > 1 THEN "getSample" ELSE "idle"
    /\ UNCHANGED <<stepRest, gainVars, cbVars, trigVars, histVars, gts,
                   n_ctl, n_pull, a_pc>>

NextStep ==
    \/ StepSetTestGenerator
    \/ StepPlay
    \/ \E b \in BOOLEAN : StepSetFilterEnabled(b)
    \/ \E b \in BOOLEAN : StepSetPaused(b)
    \/ StepBegin
    \/ AudioEnter
    \/ AudioGetSample
    \/ AudioProcess
    \/ AudioRest
    \/ StepCall
    \/ StepGetSample
    \/ StepProcess
    \/ StepWrite

SpecStep == InitRamp /\ [][NextStep]_vars

(***************************************************************************)
(* The trigger lock: two runs of process() fed the same samples, with the  *)
(* same threshold, polarity and pause state, whose trigger_lock_ is set    *)
(* independently.  The second run keeps its own trigger state.             *)
(***************************************************************************)
MaxLockSamples == 9

\* the rest of the state, for the actions of this section
lockRest == <<paramVars, morphVars, earlyVars, svfVars, coeffVars, oscVars,
              stepVars, tapVars, weightVars>>

\* setTriggerLock(v) in the first run
SetTriggerLock(v) ==
    /\ trigger_lock_' = v
    /\ UNCHANGED <<ringVars, gainVars, cbVars, trigVars, histVars, rd, gts,
                   written, n_ctl, ramp_n, raceVars, lockRest, twin_lock,
                   twin_prev, twin_holdoff, twin_pos>>

\* setTriggerLock(v) in the second run
TwinSetTriggerLock(v) ==
    /\ twin_lock' = v
    /\ UNCHANGED <<ringVars, gainVars, cbVars, trigVars, histVars, rd, gts,
                   written, n_ctl, ramp_n, raceVars, lockRest, trigger_lock_,
                   twin_prev, twin_holdoff, twin_pos>>

\* setPaused(p), in both runs
LockSetPaused(p) == SetPaused(p)

\* setTriggerRising(v), in both runs
LockSetTriggerRising(v) == SetTriggerRising(v)

\* lines 848-881 in the second run, on the sample l the first run wrote
TwinDetectTrigger(l, cursor) ==
    LET crossed == Crossed(trigger_rising_, twin_prev, l, trigger_threshold_)
        accept  == /\ crossed /\ FindTrigger(twin_holdoff)
                   /\ Triggered(twin_lock)
    IN  /\ twin_pos' = IF accept THEN TriggerPosStored(cursor) ELSE twin_pos
        /\ twin_holdoff' \in IntInc(IF accept THEN 0 ELSE twin_holdoff)
        /\ twin_prev' = l

\* a frame of process() in both runs
LockFrame(src) ==
    /\ n_proc < MaxLockSamples
    /\ Frame(src, src)
    /\ IF write_pos_' # write_pos_
       THEN TwinDetectTrigger(src[1], write_pos_ + 1)
       ELSE UNCHANGED <<twin_prev, twin_holdoff, twin_pos>>
    /\ UNCHANGED <<ramp_n, lockRest, trigger_lock_, twin_lock>>

NextLock ==
    \/ TrigBegin
    \/ \E p \in SamplePairs : LockFrame(p)
    \/ \E b \in BOOLEAN : SetTriggerLock(b)
    \/ \E b \in BOOLEAN : TwinSetTriggerLock(b)
    \/ \E b \in BOOLEAN : LockSetPaused(b)
    \/ \E b \in BOOLEAN : LockSetTriggerRising(b)

SpecLock == Init /\ [][NextLock]_vars

(***************************************************************************)
(* StereoFilterRouter: the split mode and the filter outputs routed to X   *)
(* and Y.                                                                  *)
(***************************************************************************)
\* enum class FilterOutput
FilterOutputs == {"LP", "BP", "HP", "BR", "AP", "Input"}

\* enum class SplitMode, in declaration order
SplitModes ==
    <<"LpHp", "BpAp", "BrAp", "LpBp", "ApHp", "BpBr", "InMorph", "Custom">>

kNumModes == 8

\* static_cast<int>(mode)
ModeValue(mode) == (CHOOSE k \in 1 .. Len(SplitModes) : SplitModes[k] = mode) - 1

\* static_cast<SplitMode>(n)
ModeOf(n) == SplitModes[n + 1]

\* the rest of the state, for the actions of this section
routerRest == <<ringVars, gainVars, cbVars, trigVars, histVars, rd, gts,
                written, n_ctl, ramp_n, raceVars, paramVars, morphVars,
                squareVars, edgeVars, sourceVars, dtorVars, lateVars>>

\* the switch with the break of the BpBr case missing: control falls through
\* into the InMorph case, whose assignments win
SwitchOutputsFallThrough(mode) ==
    CASE mode = "LpHp"    -> <<"LP", "HP">>
      [] mode = "BpAp"    -> <<"BP", "AP">>
      [] mode = "BrAp"    -> <<"BR", "AP">>
      [] mode = "LpBp"    -> <<"LP", "BP">>
      [] mode = "ApHp"    -> <<"AP", "HP">>
      [] mode = "BpBr"    -> <<"Input", "LP">>
      [] mode = "InMorph" -> <<"Input", "LP">>
      [] mode = "Custom"  -> <<x_output_, y_output_>>

\* the switch of setSplitMode, lines 134-163: <<x_output_, y_output_>>
SwitchOutputs(mode) ==
    CASE mode = "LpHp"    -> <<"LP", "HP">>
      [] mode = "BpAp"    -> <<"BP", "AP">>
      [] mode = "BrAp"    -> <<"BR", "AP">>
      [] mode = "LpBp"    -> <<"LP", "BP">>
      [] mode = "ApHp"    -> <<"AP", "HP">>
      [] mode = "BpBr"    -> <<"BP", "BR">>
      [] mode = "InMorph" -> <<"Input", "LP">>
      [] mode = "Custom"  -> <<x_output_, y_output_>>

\* the body of setSplitMode(mode), lines 132-165
ApplySplitMode(mode) ==
    /\ split_mode_' = mode
    /\ x_output_' = SwitchOutputs(mode)[1]
    /\ y_output_' = SwitchOutputs(mode)[2]

\* setSplitMode(mode)
SetSplitMode(mode) ==
    /\ ApplySplitMode(mode)
    /\ router_call' = "setSplitMode"
    /\ UNCHANGED routerRest

\* cycleSplitMode, lines 167-170
CycleSplitMode ==
    /\ ApplySplitMode(ModeOf((ModeValue(split_mode_) + 1) % kNumModes))
    /\ router_call' = "cycleSplitMode"
    /\ UNCHANGED routerRest

\* setXOutput(f), lines 204-207
SetXOutput(f) ==
    /\ x_output_' = f
    /\ split_mode_' = "Custom"
    /\ router_call' = "setXOutput"
    /\ UNCHANGED <<routerRest, y_output_>>

\* setYOutput(f), lines 208-211
SetYOutput(f) ==
    /\ y_output_' = f
    /\ split_mode_' = "Custom"
    /\ router_call' = "setYOutput"
    /\ UNCHANGED <<routerRest, x_output_>>

NextRouter ==
    \/ \E k \in 1 .. Len(SplitModes) : SetSplitMode(SplitModes[k])
    \/ CycleSplitMode
    \/ \E f \in FilterOutputs : SetXOutput(f)
    \/ \E f \in FilterOutputs : SetYOutput(f)

SpecRouter == Init /\ [][NextRouter]_vars

(***************************************************************************)
(* A square wave through the trigger detector: the source hands process()  *)
(* a wave of a constant period, the threshold and the polarity having been *)
(* set before the first sample.                                            *)
(***************************************************************************)
MaxPeriod == 6
MaxSquare == 14
Periods == 2 .. MaxPeriod

\* the low and the high level of the wave, and the thresholds strictly
\* between them
SquareLevels == <<-2, 2>>
SquareThresholds == {-1, 0, 1}

\* sample n of a square wave of period P: high for the first half of a
\* period
SquareSample(P, n) ==
    IF (n % P) * 2 < P THEN SquareLevels[2] ELSE SquareLevels[1]

\* the source is set to a square wave of period P starting at sample ph
StartSquare(P, ph) ==
    /\ sq_period = 0
    /\ sq_period' = P
    /\ sq_phase' = ph
    /\ UNCHANGED <<ringVars, gainVars, cbVars, trigVars, histVars, rd, gts,
                   written, n_ctl, ramp_n, raceVars, paramVars, morphVars,
                   edgeVars, sourceVars, dtorVars, routerVars, lateVars>>

SquareSetThreshold(v) == sq_period = 0 /\ SetTriggerThreshold(v)

SquareSetRising(b) == sq_period = 0 /\ SetTriggerRising(b)

SquareBegin == sq_period > 0 /\ BeginProcess /\ UNCHANGED ramp_n

\* the callback processes the next sample of the wave
SquareFrame ==
    /\ sq_period > 0
    /\ n_proc < MaxSquare
    /\ LET s == SquareSample(sq_period, sq_phase + n_proc)
       IN  ProcessFrame(<<s, s>>)
    /\ UNCHANGED ramp_n

NextSquare ==
    \/ \E P \in Periods : \E ph \in 0 .. (P - 1) : StartSquare(P, ph)
    \/ \E v \in SquareThresholds : SquareSetThreshold(v)
    \/ \E b \in BOOLEAN : SquareSetRising(b)
    \/ SquareBegin
    \/ SquareFrame

SpecSquare == Init /\ [][NextSquare]_vars

(***************************************************************************)
(* Claims                                                                  *)
(***************************************************************************)
\* C1: after n writes by a single writer, read(count, 0) with
\* 1 <= count <= min(n, kSize) returns exactly the last count written pairs,
\* in write order; after kSize + m writes read(kSize) returns the most
\* recent kSize pairs and none of the oldest m.
C1_ReadReturnsLastWritten ==
    (rd # NoResult /\ rd[2] = 0 /\ rd[1] <= Len(written) /\ rd[1] <= kSize)
        => /\ Len(rd[3]) = rd[1]
           /\ \A i \in 1 .. rd[1] : rd[3][i] = written[Len(written) - rd[1] + i]

\* a read of the whole ring after it has wrapped
C1_Witness ==
    /\ rd # NoResult /\ rd[2] = 0 /\ rd[1] = kSize
    /\ Len(written) = kSize + 2
    /\ written[1] # written[kSize + 1]

\* the frame of process() that has just run wrote a scope sample
WroteSample == n_proc' = n_proc + 1

\* that frame accepted a trigger
Accepted == n_trig' = n_trig + 1

\* that frame saw a threshold crossing while the holdoff had not elapsed
DiscardedCrossing ==
    /\ WroteSample
    /\ Crossed(trigger_rising_, prev_trigger_l_, prev_trigger_l_', trigger_threshold_)
    /\ trigger_holdoff_ < kSweepSamples

\* C2: two consecutively accepted triggers are at least kSweepSamples
\* processed, non-paused scope samples apart, the first one is accepted no
\* earlier than kSweepSamples samples after start, and a crossing seen while
\* trigger_holdoff_ < kSweepSamples is discarded: it leaves
\* latest_trigger_pos_ alone and does not reset trigger_holdoff_, which
\* only takes the increment every written sample gives it.
C2_HoldoffSeparatesTriggers ==
    [][ /\ Accepted => /\ trigger_holdoff_ >= kSweepSamples
                       /\ n_proc' - last_accept >= kSweepSamples
        /\ DiscardedCrossing => /\ ~Accepted
                                /\ latest_trigger_pos_' = latest_trigger_pos_
                                /\ trigger_holdoff_' = trigger_holdoff_ + 1
      ]_vars

\* a second trigger has just been accepted, kSweepSamples after the first
C2_Witness ==
    /\ n_trig = 2
    /\ n_proc = last_accept
    /\ last_accept = 2 * kSweepSamples + 1
    /\ trigger_holdoff_ = 1

\* C3: getTriggeredSamples returns true exactly when a trigger has been
\* accepted and lies no more than kSize/2 samples behind the write cursor,
\* for any number of samples written.
C3_TriggeredIffFresh ==
    gts # NoResult =>
        (gts[1] <=> (n_trig > 0 /\ write_pos_ - trig_cursor <= kSize \div 2))

\* C4: on acceptance latest_trigger_pos_ becomes the cursor writePos()
\* returns at that moment and trigger_holdoff_ becomes 0 before the
\* per-sample increment; latest_trigger_pos_ changes at no other time.
C4_TriggerPosIsCursor ==
    [][ /\ Accepted => /\ latest_trigger_pos_' = write_pos_'
                       /\ trigger_holdoff_' = 1
        /\ ~Accepted => latest_trigger_pos_' = latest_trigger_pos_
      ]_vars

\* C5: across every interleaving of process() with step() and setPaused(),
\* no two contexts are inside RingBuffer::write at once, the cursor equals
\* the number of write calls that have returned, and the cursor never
\* decreases.
C5_SingleWriter ==
    /\ [](~(InWrite("audio") /\ InWrite("control")))
    /\ [](write_pos_ = n_done)
    /\ [][write_pos_' >= write_pos_]_vars

\* C6: when a call of write publishes cursor c, slot c-1 holds the pair that
\* call was handed, and every position the cursor covers has been stored
\* (the pairs written are nonzero, the initial slots zero).
C6_StoredBeforePublished ==
    /\ [][\A c \in Contexts :
            (w_pc[c] = "store" /\ w_pc'[c] = "done") =>
                /\ left_'[Mask(write_pos_' - 1)] = w_val[c][1]
                /\ right_'[Mask(write_pos_' - 1)] = w_val[c][2]]_vars
    /\ [](\A q \in 0 .. (write_pos_ - 1) :
            left_[Mask(q)] # 0 /\ right_[Mask(q)] # 0)

\* a step of the frame loop of process()
FrameStep == cb_i' = cb_i + 1

Silent == <<Scaled(0, FZero), Scaled(0, FZero)>>

\* |b - a|, exactly
StepSize(a, b) == IF FLess(a, b) THEN ExactSub(b, a) ELSE ExactSub(a, b)

\* half the spacing of the binary32 numbers in [1/2, 1]: the most by which
\* the rounded sum or difference of two gains differs from the exact one
HalfUlp == F32(0, 2^7)

\* what a step of the model does to the gain: a frame moves it toward the
\* callback's target by at most bound without passing the target and keeps it
\* in [0, 1], nothing else changes it, and the callback's target is 0 when
\* paused or shutting down at its start and volume_ otherwise
GainRamp(bound) ==
    /\ FrameStep =>
         /\ FLess(current_gain_, target_gain) =>
                /\ FLess(current_gain_, current_gain_')
                /\ FLeq(current_gain_', target_gain)
         /\ FLess(target_gain, current_gain_) =>
                /\ FLess(current_gain_', current_gain_)
                /\ FLeq(target_gain, current_gain_')
         /\ current_gain_ = target_gain => current_gain_' = current_gain_
         /\ FLeq(StepSize(current_gain_, current_gain_'), bound)
         /\ FLeq(FZero, current_gain_') /\ FLeq(current_gain_', FOne)
    /\ ~FrameStep => current_gain_' = current_gain_
    /\ (cb_i = FramesPerBuffer /\ cb_i' = 0) =>
         target_gain' = IF paused_ \/ shutting_down_ THEN FZero ELSE volume_

\* C7 as claimed: in every frame processed, current_gain_ moves toward the
\* target (0 when paused or shutting down, else volume_) by at most ramp_inc,
\* never passes the target, and stays in [0, 1].
C7_StepAtMostRampInc == [][GainRamp(ramp_inc)]_vars

\* C7, amended: in every frame processed, current_gain_ moves toward the
\* target by at most ramp_inc + 2^-25, never passes the target, and stays in
\* [0, 1]; current_gain_ +- ramp_inc is rounded to binary32, which can make
\* a step up to half a unit in the last place longer than ramp_inc.
C7_GainRampBounded == [][GainRamp(ExactAdd(ramp_inc, HalfUlp))]_vars

\* the gain has come down from full volume and is held at a lower target
C7_Witness ==
    /\ current_gain_ = FHalf /\ target_gain = FHalf
    /\ out = <<Scaled(1, FHalf), Scaled(-1, FHalf)>>
    /\ n_ctl > 0 /\ n_proc > RampFrames

C9_ShutdownSilences ==
    /\ [][shutting_down_ => shutting_down_']_vars
    /\ [](shutting_down_ => TargetGain = FZero)
    /\ shutting_down_ ~> [](current_gain_ = FZero /\ out = Silent)

\* the shutdown has silenced a stream that was playing at full volume
C9_Witness ==
    /\ shutting_down_ /\ ~paused_ /\ volume_ = FOne
    /\ current_gain_ = FZero /\ out = Silent
    /\ ramp_n = RampFrames + 1


\* C11: every setter of the parameter surface leaves a value inside its
\* range: cutoff in [20, 3000] Hz, resonance in [0, 1], pre-gain in [0, 4],
\* trigger threshold in [-1, 1], split angle in [-180, 180] degrees and
\* split depth in [0, 1], whatever value it was handed.
C11_SettersStoreInRange ==
    /\ kMinFilterCutoff <= filter_cutoff_ /\ filter_cutoff_ <= kMaxFilterCutoff
    /\ kMinFilterResonance <= filter_resonance_
    /\ filter_resonance_ <= kMaxFilterResonance
    /\ kMinPreGain <= pre_gain_ /\ pre_gain_ <= kMaxPreGain
    /\ -1 <= trigger_threshold_ /\ trigger_threshold_ <= 1
    /\ kMinSplitAngle <= Degrees(split_angle_)
    /\ Degrees(split_angle_) <= kMaxSplitAngle
    /\ 0 <= split_depth_ /\ split_depth_ <= One


\* four weights over one denominator sum to 1 within 1e-4
SumNearOne(a, b, c, d) ==
    LET num == a[1] + b[1] + c[1] + d[1]
        den == a[2]
    IN  /\ b[2] = den /\ c[2] = den /\ d[2] = den
        /\ num <= den
        /\ 10000 * (den - num) <= den

\* C12: after any sequence of setPosition, setSplitAngle and setSplitDepth
\* the primary weights wLP + wBP + wHP + wBR sum to 1 within 1e-4, and so do
\* the four Y weights.
C12_WeightsSumToOne ==
    /\ SumNearOne(w_lp_, w_bp_, w_hp_, w_br_)
    /\ SumNearOne(w_lp_y_, w_bp_y_, w_hp_y_, w_br_y_)

\* a point outside the disc was rescaled to the bottom of it (BR), and a
\* split angle of 405 degrees put Y half-way between BR and HP
C12_Witness ==
    /\ pos_x_ = Whole(0) /\ pos_y_ = Whole(-One) /\ angle_ = 18
    /\ w_br_ = <<10000, 10001>>
    /\ split_angle_ = Radians(405) /\ angle_y_ = 21
    /\ w_br_y_ = <<5000, 10001>> /\ w_hp_y_ = <<5000, 10001>>


\* the Y parameters as updateYWeights derives them from the primary ones
YDerived ==
    /\ radius_y_ * One = radius_ * (One - split_depth_)
    /\ angle_y_ = (angle_ + split_angle_) % kTwoPi

\* the state invariant of FilterMorpher, the bound on angle_ apart
MorpherRanges ==
    /\ 0 <= radius_ /\ radius_ <= One
    /\ 0 <= angle_
    /\ 0 <= split_depth_ /\ split_depth_ <= One
    /\ 0 <= angle_y_ /\ angle_y_ < kTwoPi
    /\ YDerived

\* a change of the primary position re-derives the Y radius, the Y angle and
\* the Y weights
PositionRederivesY ==
    <<pos_x_, pos_y_>>' # <<pos_x_, pos_y_>> =>
        /\ YDerived'
        /\ <<w_lp_y_, w_bp_y_, w_hp_y_, w_br_y_>>' =
               LET W == ComputeWeights(angle_y_')
               IN  <<W.lp, W.bp, W.hp, W.br>>

\* C18: after any sequence of setPosition, setSplitAngle and setSplitDepth:
\* radius in [0, 1], angle in [0, 2 pi), split depth in [0, 1], Y radius =
\* radius * (1 - split depth), Y angle = angle + split angle wrapped into
\* one turn; and every change of the primary position re-derives the Y
\* radius, the Y angle and the Y weights.
C18_MorpherInvariant ==
    /\ [](MorpherRanges /\ angle_ < kTwoPi)
    /\ [][PositionRederivesY]_vars

\* the same with angle in [0, 2 pi], both ends included
MorpherInvariantClosed ==
    /\ [](MorpherRanges /\ angle_ <= kTwoPi)
    /\ [][PositionRederivesY]_vars


\* the number of accepted triggers is n_proc / sq_period within 1
CountMatchesPeriod ==
    /\ sq_period * n_trig - n_proc <= sq_period
    /\ n_proc - sq_period * n_trig <= sq_period

\* C13: fed a square wave of constant period P for T samples, with the
\* threshold strictly between the levels of the wave, process() accepts
\* T / P triggers within +/- 1, for every period P.
C13_TriggersPerPeriod == sq_period > 0 => CountMatchesPeriod

\* C13 for the periods of at least one sweep: never more than T / P + 1
\* triggers, and more than T / P - 2, the crossings of the first
\* kSweepSamples samples being discarded
C13_TriggersPerLongPeriod ==
    sq_period >= kSweepSamples =>
        /\ sq_period * n_trig - n_proc <= sq_period
        /\ n_proc - sq_period * n_trig < 2 * sq_period

\* a wave of period kSweepSamples that starts low: on falling edges with the
\* threshold above zero, a trigger was accepted on each of its four edges
C13_Witness ==
    /\ sq_period = kSweepSamples
    /\ ~trigger_rising_ /\ trigger_threshold_ = 1
    /\ sq_phase = kSweepSamples - 1
    /\ n_proc = 4 * kSweepSamples + 1
    /\ n_trig = 4


\* how often index k occurs in the sequence q of written indices
Times(q, k) == Cardinality({j \in 1 .. Len(q) : q[j] = k})

\* a call of process() has begun
CallbackBegun == cb_i < FramesPerBuffer \/ out_idx # <<>>

\* when the frame wrote to the ring, the pair it wrote to out[] is the
\* sample pair (the speaker values, the filter being disabled) times
\* current_gain_; in any frame each value is zero or carries current_gain_
OutIsSampleTimesGain ==
    FrameStep =>
        /\ \A c \in 1 .. 2 :
               out'[c] = Scaled(0, FZero) \/ out'[c][2] = current_gain_'
        /\ write_pos_' # write_pos_ =>
               out' = <<Scaled(left_'[Mask(write_pos_)], current_gain_'),
                        Scaled(right_'[Mask(write_pos_)], current_gain_')>>

ReadClampsToStart ==
    (rd # NoResult /\ rd[1] + rd[2] > write_pos_) =>
        /\ Len(rd[3]) = rd[1]
        /\ \A i \in 1 .. rd[1] :
               /\ rd[3][i] = <<left_[Mask(i - 1)], right_[Mask(i - 1)]>>
               /\ i - 1 >= write_pos_ => rd[3][i] = <<0, 0>>

\* readLeft or readRight reached before the first sample: 0
ReadBeforeStartIsZero ==
    (rl # NoResult /\ write_pos_ + rl[2] < 0) => rl[3] = 0

\* C15: RingBuffer::read(count, offset) with count + offset beyond the
\* samples written returns exactly count pairs, those of positions
\* 0 .. count-1, every never-written slot as (0, 0); readLeft and readRight
\* with an offset reaching before the first write return 0.
C15_ReadsBeyondHistory == ReadClampsToStart /\ ReadBeforeStartIsZero


\* no audio data and no test generator
EmptySource == total = 0 /\ ~test_generator_

\* C16: with empty audio data and no test generator, a frame of process()
\* that starts from reset filter state puts out (0, 0), leaves the play
\* position alone and reads no element of the sample vectors, with the
\* filter enabled or disabled; and play() does not start a stream:
\* isPlaying stays false.
C16_EmptySourceIsSilent ==
    /\ [][(EmptySource /\ svf_rest /\ FrameStep) =>
             /\ out' = <<Scaled(0, FZero), Scaled(0, FZero)>>
             /\ play_position_' = play_position_
             /\ n_index' = n_index
             /\ svf_rest']_vars
    /\ [][(EmptySource /\ ~is_playing_) => ~is_playing_']_vars

\* the stream was started on the test generator, which was then taken away:
\* the last frame ran on the empty source with the filter enabled and the
\* gain above zero, and wrote silence
C16_Witness ==
    /\ EmptySource /\ is_playing_ /\ filter_enabled_ /\ svf_rest
    /\ n_pull = MaxPull /\ write_pos_ = MaxPull
    /\ left_[0] = 1
    /\ left_[Mask(MaxPull - 1)] = 0
    /\ FLess(FZero, current_gain_)
    /\ out = <<Scaled(0, FZero), Scaled(0, FZero)>>


\* C17: destroying a playing AudioPlayer sets the shutting-down flag, runs
\* its wait loop at most kMaxPolls times and then stops the stream: the
\* destructor always terminates, and the stream is released only after the
\* loop found current_gain at or below 0.001 or used up its polls.
C17_DestructorTerminates ==
    /\ [](polls <= kMaxPolls)
    /\ [][(dtor_pc = "alive" /\ dtor_pc' # "alive" /\ is_playing_)
             => shutting_down_']_vars
    /\ [][(is_playing_ /\ ~is_playing_') =>
             /\ dtor_pc = "stop"
             /\ polls = kMaxPolls \/ FLeq(dtor_seen, kGainFloor)]_vars
    /\ (dtor_pc # "alive") ~> (dtor_pc = "done")

\* the destructor of a playing player has returned: it slept, but fewer
\* than kMaxPolls times, then found the gain ramped down to zero and
\* released the stream
C17_Witness ==
    /\ dtor_pc = "done" /\ ~is_playing_ /\ shutting_down_
    /\ polls > 0 /\ polls < kMaxPolls
    /\ dtor_seen = FZero
    /\ current_gain_ = FZero


\* the preset table: the filter outputs on X and Y for each preset
PresetTable ==
    [LpHp |-> <<"LP", "HP">>, BpAp |-> <<"BP", "AP">>,
     BrAp |-> <<"BR", "AP">>, LpBp |-> <<"LP", "BP">>,
     ApHp |-> <<"AP", "HP">>, BpBr |-> <<"BP", "BR">>,
     InMorph |-> <<"Input", "LP">>]

\* C19: after any sequence of setSplitMode, cycleSplitMode, setXOutput and
\* setYOutput, whenever the split mode is not Custom the pair (xOutput,
\* yOutput) is that preset's entry of the table; setXOutput and setYOutput
\* leave the mode Custom and the other channel's output as it was.
C19_PresetTable ==
    /\ [](split_mode_ # "Custom" =>
            <<x_output_, y_output_>> = PresetTable[split_mode_])
    /\ [](router_call \in {"setXOutput", "setYOutput"} =>
            split_mode_ = "Custom")
    /\ [][router_call' = "setXOutput" => y_output_' = y_output_]_vars
    /\ [][router_call' = "setYOutput" => x_output_' = x_output_]_vars

\* from the BpBr preset setYOutput(AP) has left the mode Custom with X still
\* on BP
C19_Witness ==
    /\ router_call = "setYOutput"
    /\ split_mode_ = "Custom"
    /\ x_output_ = "BP" /\ y_output_ = "AP"

\* the preset after each preset, in declaration order, the last one
\* followed by the first
NextPreset ==
    [LpHp |-> "BpAp", BpAp |-> "BrAp", BrAp |-> "LpBp", LpBp |-> "ApHp",
     ApHp |-> "BpBr", BpBr |-> "InMorph", InMorph |-> "LpHp"]

\* C20: each call of cycleSplitMode moves from a preset to the next one in
\* declaration order (LpHp, BpAp, BrAp, LpBp, ApHp, BpBr, InMorph), from
\* InMorph back to LpHp, and sets the X and Y outputs of the new preset.
C20_CycleThroughPresets ==
    [][(router_call' = "cycleSplitMode" /\ split_mode_ # "Custom") =>
          /\ split_mode_' = NextPreset[split_mode_]
          /\ <<x_output_', y_output_'>> = PresetTable[split_mode_']]_vars


\* the coefficients are those updateCoeffs computes from the stored values
CoeffsCurrent ==
    /\ g_ = <<cutoff_, sample_rate_>>
    /\ k_ = 2 * (100 - resonance_)
    /\ a1_ = <<g_, k_>>

\* resonance_ lies in [0, 1] and k_ in [0, 2]
ResonanceInRange ==
    svf_call # "none" =>
        /\ CoeffsCurrent
        /\ 0 <= resonance_ /\ resonance_ <= 100
        /\ 0 <= k_ /\ k_ <= 200

\* C21: after any sequence of setSampleRate, setCutoff and setResonance,
\* whenever g has been computed cutoff_ lies in [20, 0.49 * sample_rate_],
\* resonance_ in [0, 1], g = tan(pi * cutoff / sampleRate) is finite and
\* positive, and k = 2 (1 - resonance) lies in [0, 2].
C21_CoefficientsInRange ==
    svf_call # "none" =>
        /\ CoeffsCurrent
        /\ 20 <= cutoff_ /\ cutoff_ <= MaxCutoff(sample_rate_)
        /\ 0 <= resonance_ /\ resonance_ <= 100
        /\ Tan(g_) = "positive"
        /\ 0 <= k_ /\ k_ <= 200


\* C24: within one call of SimpleSVF::process the coefficients read all
\* derive from one setting: a1 = 1 / (1 + g * (g + k)) for the g, k and a1
\* the call used.
C24_CoefficientsFromOneSetting ==
    sp_pc = "idle" => sp_a1 = <<sp_g, sp_k>>


\* 0 <= p < 1
InUnitInterval(p) == ~Negative(p) /\ p[1] < One

\* the phase is in [0, 1], the value 1.0 included
PhaseInClosedUnit == ~Negative(phase) /\ phase[1] <= One

\* C22: after any sequence of getSample, setPhase, advancePhase (either
\* sign), resetPhase, reset, setFrequency and setSampleRate the phase lies
\* in [0, 1).
C22_PhaseInUnitInterval == InUnitInterval(phase)


\* C23: when getTriggeredSamples returns true, out[i] is the left sample
\* written at absolute position t + i, t being the cursor captured at the
\* last accepted trigger: a sample written at or after the trigger, never a
\* slot not yet written since.  Position q has been written when the cursor
\* is beyond it, and its sample is in slot Mask(q) until kSize more have
\* been written.
C23_SweepWrittenSinceTrigger ==
    (gts # NoResult /\ gts[1]) =>
        \A i \in 0 .. (Len(gts[2]) - 1) :
            /\ trig_cursor + i < write_pos_
            /\ write_pos_ - (trig_cursor + i) <= kSize
            /\ gts[2][i + 1] = left_[Mask(trig_cursor + i)]


\* the context is inside test_generator_->getSample or svf_.process
AudioInSource == a_pc \in {"getSample", "process"}
StepInSource == s_pc \in {"getSample", "process"}

\* C25: the filter state and the oscillator state are advanced by one
\* context at a time: step() is never inside svf_.process or
\* test_generator_->getSample while the callback is inside them during its
\* ramp-down (paused, current_gain_ > 0).
C25_OneContextInSource == ~(AudioInSource /\ StepInSource)


\* the frame that ends in this step was running, with the gain above zero
RunningFrame == FrameStep /\ FLess(FZero, current_gain_')

\* the pair the step wrote to the ring
RingPair == <<left_'[Mask(write_pos_)], right_'[Mask(write_pos_)]>>

\* the pair times the gain, as out[] holds it
TimesGain(pair, g) == <<Scaled(pair[1], g), Scaled(pair[2], g)>>

PausedFrame == n_pull' = n_pull + 1 /\ paused_

\* C28: while paused, process() never writes the ring buffer and leaves the
\* previous-trigger sample, holdoffCounter and lastTriggerPosition unchanged;
\* while the gain is above 0 it still pulls from the source (the play
\* position advances, the generator is asked), and once the gain has reached
\* 0 it pulls nothing and puts out (0, 0).
C28_PausedProcess ==
    [][PausedFrame =>
        /\ UNCHANGED <<ringVars, prev_trigger_l_, trigger_holdoff_,
                       latest_trigger_pos_>>
        /\ IF FLess(FZero, current_gain_')
           THEN /\ total > 0 =>
                      /\ play_position_' = play_position_ + 1
                      /\ tap_src' = AudioSample(play_position_ % total)
                /\ total = 0 /\ test_generator_ => tap_src' \in GenPairs
           ELSE /\ play_position_' = play_position_
                /\ tap_src' = <<0, 0>>
                /\ out' = <<<<0, FZero>>, <<0, FZero>>>>]_vars

\* paused frames of both kinds have run on a loaded file: two while the gain
\* was still above 0, then one with the gain at 0
C28_Witness ==
    /\ paused_ /\ total > 0
    /\ current_gain_ = FZero
    /\ n_pull = 4
    /\ play_position_ = 3
    /\ write_pos_ = 1
    /\ tap_src = <<0, 0>>


\* the radius and weights an apply call has read, once it has them all
ApplyUsed == <<ap_kind, ap_val.r, ap_val.lp, ap_val.bp, ap_val.hp, ap_val.br>>

\* the setters, run alone, leave the weights computeWeights returns
WeightsComplete ==
    mw_pc = <<"idle", 0>> /\ n_ctl > 0 =>
        /\ YWeights = ComputeWeights(angle_y_)
        /\ mw_done # {} /\ <<"y", radius_y_, w_lp_y_, w_bp_y_, w_hp_y_,
                             w_br_y_>> \in mw_done

\* C29: under any interleaving of setPosition, setSplitAngle or setSplitDepth
\* with apply/applyXY, the radius and the four weights read by one apply call
\* all come from one completed weight computation.
C29_WeightsFromOneComputation ==
    ap_kind \in {"x", "y"} /\ ap_read = ApplyArgs => ApplyUsed \in mw_done


\* the four weights an apply call has read sum to 1: to exactly 1 for the
\* member initialisers, to s / (s + 0.0001) after computeWeights
ApplyWeightsSumToOne ==
    ap_kind \in {"x", "y"} /\ ap_read = ApplyArgs =>
        LET den == ap_val.lp[2]
            sum == ap_val.lp[1] + ap_val.bp[1] + ap_val.hp[1] + ap_val.br[1]
        IN  /\ ap_val.bp[2] = den /\ ap_val.hp[2] = den /\ ap_val.br[2] = den
            /\ sum = den \/ sum = den - 1


\* C30: the trigger holdoff counter never overflows or becomes negative:
\* trigger_holdoff_ >= 0 in every reachable state, for any input, one with no
\* threshold crossing for as many samples as an int counts included.
C30_HoldoffNeverNegative == trigger_holdoff_ >= 0

\* a crossing after a quiet stretch of at most IntMax samples is accepted
QuietCrossingAccepted ==
    [][/\ n_proc' = n_proc + 1 /\ n_proc < IntMax
       /\ n_trig = 0 /\ trigger_holdoff_ >= kSweepSamples
       /\ prev_trigger_l_ <= trigger_threshold_
       /\ prev_trigger_l_' > trigger_threshold_
       => n_trig' = 1 /\ trigger_holdoff_' = 1]_vars


\* short of IntMax samples without an accepted trigger, the counter is
\* below IntMax: the runs of the other specifications stay clear of the
\* overflow
HoldoffBelowMax == trigger_holdoff_ \in 0 .. IntMax - 1

====
